---- MODULE Spec2Model ----
(***************************************************************************)
(* A model of the persistent job queue of agent-eval                       *)
(* (src/src/agent-eval/orchestrator/job_queue.py) and of the processes     *)
(* that share its file.                                                    *)
(*                                                                         *)
(* Representation.                                                         *)
(*   - An Optional[X] value is a sequence of length at most one: None is   *)
(*     <<>> and a present value x is <<x>>.  JSON null is <<>> as well.    *)
(*   - A datetime is a tick of a logical clock (an integer); its ISO-8601  *)
(*     text is a string built by isoformat and parsed by fromisoformat.    *)
(*   - An enum member is known by its name ("PENDING"); its value is the   *)
(*     string the enum declares ("pending").                               *)
(*   - The dict self.jobs is insertion ordered: it is a sequence of Job    *)
(*     records, each under the key job.id.                                 *)
(*   - The queue file is a record [kind, jobs]: kind tells whether the     *)
(*     file is missing, blank, unparsable, valid JSON that is no object,   *)
(*     or a JSON object; jobs is the sequence of the entries of its        *)
(*     "jobs" member.  The member saved_at is written and never read: it   *)
(*     is left out.                                                        *)
(***************************************************************************)
EXTENDS Integers, Sequences, FiniteSets, TLC

\* ------------------------------------------------------------------ bounds
\* Jobs enqueued in one behaviour.
MaxJobs == 2
\* Largest max_retries given to enqueue.
MaxRetries == 1
\* Last tick of the logical clock.
MaxTime == 1
\* Largest max_retries in the retry scenario.
RetryBudget == 2
\* Well-formed records in a queue file found at start-up.
MaxGood == 3
\* Threads that share one JobQueue, and the jobs each of them takes.
MaxThreads == 3
Quota == 2

\* ------------------------------------------------------- program constants
\* save_to_file: max_retries = 3
SaveAttempts == 3
\* load_from_file: max_retries = 5
LoadAttempts == 5
\* Job.max_retries: int = 3 (the dataclass default)
DefaultMaxRetries == 3

None == <<>>
Some(x) == <<x>>

\* class JobStatus(Enum): member name |-> value
JobStatus ==
  [PENDING |-> "pending", RUNNING |-> "running", COMPLETED |-> "completed",
   FAILED |-> "failed", CANCELLED |-> "cancelled"]

\* class JobType(Enum): member name |-> value
JobType ==
  [EVALUATE_TASK |-> "evaluate_task", EVOLVE_EPOCH |-> "evolve_epoch",
   COMPILE_CHECK |-> "compile_check", GENERATE_METRICS |-> "generate_metrics"]

\* What the producers enqueue: the job type and the parameter document
\* (a JSON object) of an evaluation job and of a validation job.
Requests ==
  {[job_type |-> "EVALUATE_TASK",
    parameters |-> [epoch |-> "epoch-001", task |-> "task-001"]],
   [job_type |-> "COMPILE_CHECK",
    parameters |-> [epoch |-> "epoch-001", task |-> "task-002"]]}
\* The worker ids given to dequeue.
WorkerIds == {"worker-1", "worker-2"}
\* The error texts given to fail_job.
Errors == {"boom"}
\* The ticks of the clock; tick 0 is before the queue object was made.
Times == 0..MaxTime

\* @dataclass JobResult, with its defaults and __post_init__
JobResult(success, output, error, execution_time, artifacts) ==
  [success |-> success, output |-> output, error |-> error,
   execution_time |-> execution_time, artifacts |-> artifacts]

\* The results workers hand to complete_job.
Results == {JobResult(TRUE, "done", "", 1, "{}")}

\* ------------------------------------------------------------------- Job

\* Job.create: a Pending job with a fresh id, created now
create(id, job_type, parameters, max_retries, t) ==
  [id |-> id, job_type |-> job_type, status |-> "PENDING",
   parameters |-> parameters, created_at |-> Some(t), started_at |-> None,
   completed_at |-> None, result |-> None, retry_count |-> 0,
   max_retries |-> max_retries, worker_id |-> None]

\* can_retry with the bound off by one
can_retry_inclusive(job) == job.retry_count <= job.max_retries

can_retry(job) == job.retry_count < job.max_retries

\* mark_running that does not record the worker
mark_running_anonymous(job, worker_id, t) ==
  [job EXCEPT !.status = "RUNNING", !.started_at = Some(t)]

mark_running(job, worker_id, t) ==
  [job EXCEPT !.status = "RUNNING", !.started_at = Some(t),
              !.worker_id = Some(worker_id)]

mark_completed(job, result, t) ==
  [job EXCEPT !.status = "COMPLETED", !.completed_at = Some(t),
              !.result = Some(result)]

\* The result after mark_failed: a fresh failure result, or the old one
\* with its error overwritten.
failed_result(job, error) ==
  IF job.result = None
    THEN Some(JobResult(FALSE, "", error, 0, "{}"))
    ELSE Some([job.result[1] EXCEPT !.error = error])

\* mark_failed giving the retry without counting it
mark_failed_uncounted(job, error, allow_retry, t) ==
  IF allow_retry /\ can_retry(job)
    THEN [job EXCEPT !.status = "PENDING",
                     !.started_at = None, !.worker_id = None,
                     !.result = failed_result(job, error)]
    ELSE [job EXCEPT !.status = "FAILED", !.completed_at = Some(t),
                     !.result = failed_result(job, error)]

mark_failed(job, error, allow_retry, t) ==
  IF allow_retry /\ can_retry(job)
    THEN [job EXCEPT !.retry_count = @ + 1, !.status = "PENDING",
                     !.started_at = None, !.worker_id = None,
                     !.result = failed_result(job, error)]
    ELSE [job EXCEPT !.status = "FAILED", !.completed_at = Some(t),
                     !.result = failed_result(job, error)]

\* ------------------------------------------------------ (de)serialization

\* The ISO-8601 text of each tick.
IsoText == [t \in Times |-> "2026-01-01T00:00:0" \o ToString(t)]

\* datetime.isoformat
isoformat(t) == IsoText[t]

\* datetime.fromisoformat: the datetime a text denotes, None for a text
\* that is no ISO date (the code raises ValueError there).
fromisoformat(s) ==
  IF \E t \in Times : isoformat(t) = s
    THEN Some(CHOOSE t \in Times : isoformat(t) = s)
    ELSE None

\* Enum lookup by value, JobType(v) and JobStatus(v): the member name, None
\* for a value the enum does not have (ValueError).
enum_by_value(enum, v) ==
  IF \E n \in DOMAIN enum : enum[n] = v
    THEN Some(CHOOSE n \in DOMAIN enum : enum[n] = v)
    ELSE None

TimeFields == <<"created_at", "started_at", "completed_at">>
JobFields ==
  {"id", "job_type", "status", "parameters", "created_at", "started_at",
   "completed_at", "result", "retry_count", "max_retries", "worker_id"}
\* The dataclass fields without a default.
RequiredFields == {"id", "job_type", "status", "parameters", "created_at"}
ResultFields == {"success", "output", "error", "execution_time", "artifacts"}

\* to_dict that leaves the status enum member in place of its value
to_dict_status_name(job) ==
  [job EXCEPT
     !.created_at = IF @ # None THEN Some(isoformat(@[1])) ELSE None,
     !.started_at = IF @ # None THEN Some(isoformat(@[1])) ELSE None,
     !.completed_at = IF @ # None THEN Some(isoformat(@[1])) ELSE None,
     !.job_type = JobType[job.job_type]]

\* Job.to_dict: asdict, datetimes as ISO text, enums as their values
to_dict(job) ==
  [job EXCEPT
     !.created_at = IF @ # None THEN Some(isoformat(@[1])) ELSE None,
     !.started_at = IF @ # None THEN Some(isoformat(@[1])) ELSE None,
     !.completed_at = IF @ # None THEN Some(isoformat(@[1])) ELSE None,
     !.job_type = JobType[job.job_type],
     !.status = JobStatus[job.status]]

\* A member of a JSON object, or the default when it is absent.
get(d, name, default) == IF name \in DOMAIN d THEN d[name] ELSE default

\* JobResult(**d): fails (TypeError) on an unknown key or a missing success
result_from_dict(d) ==
  JobResult(d.success, get(d, "output", ""), get(d, "error", ""),
            get(d, "execution_time", 0), get(d, "artifacts", "{}"))

\* The exception Job.from_dict raises on one entry of the jobs member, ""
\* when it raises none.  The checks run in the order of the code.
from_dict_error(e) ==
  IF e.kind # "object" THEN "TypeError"
  ELSE LET d == e.val
           bad == {i \in 1..Len(TimeFields) :
                     \/ TimeFields[i] \notin DOMAIN d
                     \/ /\ d[TimeFields[i]] # None
                        /\ fromisoformat(d[TimeFields[i]][1]) = None}
           first == CHOOSE i \in bad : \A k \in bad : i <= k
       IN IF bad # {}
            THEN IF TimeFields[first] \notin DOMAIN d
                   THEN "KeyError" ELSE "ValueError"
          ELSE IF "job_type" \notin DOMAIN d THEN "KeyError"
          ELSE IF enum_by_value(JobType, d.job_type) = None THEN "ValueError"
          ELSE IF "status" \notin DOMAIN d THEN "KeyError"
          ELSE IF enum_by_value(JobStatus, d.status) = None THEN "ValueError"
          ELSE IF /\ get(d, "result", None) # None
                  /\ \/ ~(DOMAIN d.result[1] \subseteq ResultFields)
                     \/ "success" \notin DOMAIN d.result[1]
            THEN "TypeError"
          ELSE IF \/ ~(DOMAIN d \subseteq JobFields)
                  \/ ~(RequiredFields \subseteq DOMAIN d)
            THEN "TypeError"
          ELSE ""

\* from_dict that gives every job the default retry budget
from_dict_default_budget(e) ==
  LET d == e.val
      ts(f) == IF d[f] # None THEN fromisoformat(d[f][1]) ELSE None
  IN [id |-> d.id,
      job_type |-> enum_by_value(JobType, d.job_type)[1],
      status |-> enum_by_value(JobStatus, d.status)[1],
      parameters |-> d.parameters,
      created_at |-> ts("created_at"),
      started_at |-> ts("started_at"),
      completed_at |-> ts("completed_at"),
      result |-> IF get(d, "result", None) # None
                   THEN Some(result_from_dict(d.result[1])) ELSE None,
      retry_count |-> get(d, "retry_count", 0),
      max_retries |-> DefaultMaxRetries,
      worker_id |-> get(d, "worker_id", None)]

\* Job.from_dict on an entry it accepts: cls(**data) with the defaults
from_dict(e) ==
  LET d == e.val
      ts(f) == IF d[f] # None THEN fromisoformat(d[f][1]) ELSE None
  IN [id |-> d.id,
      job_type |-> enum_by_value(JobType, d.job_type)[1],
      status |-> enum_by_value(JobStatus, d.status)[1],
      parameters |-> d.parameters,
      created_at |-> ts("created_at"),
      started_at |-> ts("started_at"),
      completed_at |-> ts("completed_at"),
      result |-> IF get(d, "result", None) # None
                   THEN Some(result_from_dict(d.result[1])) ELSE None,
      retry_count |-> get(d, "retry_count", 0),
      max_retries |-> get(d, "max_retries", DefaultMaxRetries),
      worker_id |-> get(d, "worker_id", None)]

\* ------------------------------------------------------------- the file

NoFile == [kind |-> "missing", jobs |-> <<>>]

\* The document save_to_file dumps: every job under its id
document(js) ==
  [kind |-> "object",
   jobs |-> [i \in 1..Len(js) |->
               [key |-> js[i].id, kind |-> "object", val |-> to_dict(js[i])]]]

\* JobQueue.save_to_file: up to SaveAttempts attempts to write a temporary
\* file and rename it over the queue file; the first attempt that succeeds
\* replaces the file, and when all fail the file is left as it was.
\* failing is the number of attempts the file system makes fail.
save_to_file(js, f, failing) ==
  IF failing < SaveAttempts THEN document(js) ELSE f

\* A per-record handler that catches KeyError alone
CaughtKeyErrorOnly == {"KeyError"}

\* The exceptions the per-record handler of load_from_file catches.
CaughtPerRecord == {"KeyError", "ValueError", "TypeError"}

\* The loop over jobs_data.items(): the jobs decoded so far, in file
\* order; an entry whose decoding raises a caught exception is skipped
RECURSIVE load_entries(_, _)
load_entries(es, acc) ==
  IF es = <<>> THEN acc
  ELSE IF from_dict_error(Head(es)) = ""
         THEN load_entries(Tail(es), Append(acc, from_dict(Head(es))))
         ELSE load_entries(Tail(es), acc)

\* Whether an attempt on file f ends in an exception, and in which handler:
\* "" (none), "json" (except (json.JSONDecodeError, ValueError)) or
\* "other" (except Exception).
attempt_error(f) ==
  CASE f.kind = "garbage" -> "json"
    [] f.kind \in {"nonobject", "badjobs"} -> "other"
    [] f.kind = "object" ->
         IF \E i \in 1..Len(f.jobs) :
              from_dict_error(f.jobs[i]) \notin CaughtPerRecord \cup {""}
           THEN "other" ELSE ""
    [] OTHER -> ""

\* load_from_file giving up on an unparsable file without saving
RECURSIVE load_attempts_unhealed(_, _, _)
load_attempts_unhealed(f, js, attempt) ==
  IF f.kind = "blank" \/ attempt_error(f) # ""
    THEN IF attempt < LoadAttempts - 1
           THEN load_attempts_unhealed(f, js, attempt + 1)
           ELSE [jobs |-> <<>>, file |-> f, attempts |-> attempt + 1]
    ELSE [jobs |-> load_entries(f.jobs, <<>>), file |-> f,
          attempts |-> attempt + 1]

\* JobQueue.load_from_file from attempt number attempt on, the file staying
\* as it is between the attempts: the job map and the file it ends with,
\* and the number of attempts made.
RECURSIVE load_attempts(_, _, _)
load_attempts(f, js, attempt) ==
  IF f.kind = "blank" \/ attempt_error(f) # ""
    THEN IF attempt < LoadAttempts - 1
           THEN load_attempts(f, js, attempt + 1)
           ELSE [jobs |-> <<>>,
                 file |-> IF attempt_error(f) = "json"
                            THEN save_to_file(<<>>, f, 0) ELSE f,
                 attempts |-> attempt + 1]
    ELSE [jobs |-> load_entries(f.jobs, <<>>), file |-> f,
          attempts |-> attempt + 1]

\* JobQueue.load_from_file: nothing happens when the file does not exist
load_from_file(f, js) ==
  IF f.kind = "missing"
    THEN [jobs |-> js, file |-> f, attempts |-> 0]
    ELSE load_attempts(f, js, 0)

\* -------------------------------------------------- the queue operations
\* Each operation is a function of the job map js it finds: the map it
\* leaves, what it returns, and whether it saves.

\* The position of the job with this id in the map, 0 when there is none
index_of(js, id) ==
  IF \E i \in 1..Len(js) : js[i].id = id
    THEN CHOOSE i \in 1..Len(js) : js[i].id = id
    ELSE 0

\* JobQueue.enqueue: self.jobs[job.id] = job, for the fresh id of Job.create
enqueue(js, id, job_type, parameters, max_retries, t) ==
  Append(js, create(id, job_type, parameters, max_retries, t))

\* A filter test that admits every type
admits_any(job_types, job) == TRUE

\* A filter whose empty list admits no type
admits_listed(job_types, job) ==
  job_types = None \/ job.job_type \in job_types[1]

\* dequeue's test of one job: Pending, and of a type the filter admits.
\* job_types is None or Some(set of types); None and the empty list are
\* both falsy, and then every type is admitted.
admits(job_types, job) ==
  ~(job_types # None /\ job_types[1] # {} /\ job.job_type \notin job_types[1])

\* A test that takes a Failed job as well as a Pending one
claimable_failed(job, job_types) ==
  job.status \in {"PENDING", "FAILED"} /\ admits(job_types, job)

claimable(job, job_types) == job.status = "PENDING" /\ admits(job_types, job)

\* A scan that keeps the last claimable job it meets
last_claimable(js, job_types) ==
  IF \E i \in 1..Len(js) : claimable(js[i], job_types)
    THEN CHOOSE i \in 1..Len(js) :
           /\ claimable(js[i], job_types)
           /\ \A k \in (i + 1)..Len(js) : ~claimable(js[k], job_types)
    ELSE 0

\* The scan of dequeue over self.jobs.values(): the first claimable job's
\* position, 0 when there is none
first_claimable(js, job_types) ==
  IF \E i \in 1..Len(js) : claimable(js[i], job_types)
    THEN CHOOSE i \in 1..Len(js) :
           /\ claimable(js[i], job_types)
           /\ \A k \in 1..(i - 1) : ~claimable(js[k], job_types)
    ELSE 0

\* dequeue that claims in memory and does not save
dequeue_unsaved(js, worker_id, job_types, t) ==
  LET i == first_claimable(js, job_types)
  IN IF i = 0
       THEN [jobs |-> js, job |-> None, save |-> FALSE]
       ELSE [jobs |-> [js EXCEPT ![i] = mark_running(@, worker_id, t)],
             job |-> Some(js[i].id), save |-> FALSE]

\* dequeue that claims every claimable job it meets
dequeue_greedy(js, worker_id, job_types, t) ==
  LET i == first_claimable(js, job_types)
  IN IF i = 0
       THEN [jobs |-> js, job |-> None, save |-> FALSE]
       ELSE [jobs |-> [k \in 1..Len(js) |->
                         IF claimable(js[k], job_types)
                           THEN mark_running(js[k], worker_id, t)
                           ELSE js[k]],
             job |-> Some(js[i].id), save |-> TRUE]

\* JobQueue.dequeue after its reload
dequeue(js, worker_id, job_types, t) ==
  LET i == first_claimable(js, job_types)
  IN IF i = 0
       THEN [jobs |-> js, job |-> None, save |-> FALSE]
       ELSE [jobs |-> [js EXCEPT ![i] = mark_running(@, worker_id, t)],
             job |-> Some(js[i].id), save |-> TRUE]

\* Python truth of a returned value; None is false.
truthy(v) == v # None

\* complete_job that saves whether or not it knows the id
complete_job_saving(js, id, result, t) ==
  LET i == index_of(js, id)
  IN IF i = 0
       THEN [jobs |-> js, save |-> TRUE, returns |-> None]
       ELSE [jobs |-> [js EXCEPT ![i] = mark_completed(@, result, t)],
             save |-> TRUE, returns |-> None]

\* JobQueue.complete_job; the method has no return statement, so it
\* returns None whether or not it knew the id
complete_job(js, id, result, t) ==
  LET i == index_of(js, id)
  IN IF i = 0
       THEN [jobs |-> js, save |-> FALSE, returns |-> None]
       ELSE [jobs |-> [js EXCEPT ![i] = mark_completed(@, result, t)],
             save |-> TRUE, returns |-> None]

\* A fail_job that records nothing
fail_job_unrecorded(js, id, error, allow_retry, t) ==
  [jobs |-> js, save |-> FALSE, returns |-> None]

\* JobQueue.fail_job; it returns None as well
fail_job(js, id, error, allow_retry, t) ==
  LET i == index_of(js, id)
  IN IF i = 0
       THEN [jobs |-> js, save |-> FALSE, returns |-> None]
       ELSE [jobs |-> [js EXCEPT ![i] = mark_failed(@, error, allow_retry, t)],
             save |-> TRUE, returns |-> None]

\* The jobs retry_failed_jobs requeues
retryable(job) == can_retry(job)

\* JobQueue.retry_failed_jobs
retry_failed_jobs(js) ==
  LET hit == {i \in 1..Len(js) : retryable(js[i])}
  IN [jobs |-> [i \in 1..Len(js) |->
                  IF i \in hit
                    THEN [js[i] EXCEPT !.status = "PENDING",
                                       !.started_at = None,
                                       !.worker_id = None]
                    ELSE js[i]],
      count |-> Cardinality(hit), save |-> Cardinality(hit) > 0]

\* reset_running_jobs that leaves worker_id in place
reset_running_jobs_keeps_worker(js) ==
  LET hit == {i \in 1..Len(js) : js[i].status = "RUNNING"}
  IN [jobs |-> [i \in 1..Len(js) |->
                  IF i \in hit
                    THEN [js[i] EXCEPT !.status = "PENDING",
                                       !.started_at = None]
                    ELSE js[i]],
      count |-> Cardinality(hit), save |-> Cardinality(hit) > 0]

\* JobQueue.reset_running_jobs
reset_running_jobs(js) ==
  LET hit == {i \in 1..Len(js) : js[i].status = "RUNNING"}
  IN [jobs |-> [i \in 1..Len(js) |->
                  IF i \in hit
                    THEN [js[i] EXCEPT !.status = "PENDING",
                                       !.started_at = None,
                                       !.worker_id = None]
                    ELSE js[i]],
      count |-> Cardinality(hit), save |-> Cardinality(hit) > 0]

\* clear_completed_jobs that takes every Completed and Failed job
clear_terminal_jobs(js, cutoff_time) ==
  LET kept(job) == job.status \notin {"COMPLETED", "FAILED"}
      left == SelectSeq(js, kept)
  IN [jobs |-> left, count |-> Len(js) - Len(left),
      save |-> Len(js) - Len(left) > 0]

\* JobQueue.clear_completed_jobs, with cutoff_time = now - older_than
clear_completed_jobs(js, cutoff_time) ==
  LET expired(job) ==
        /\ job.status \in {"COMPLETED", "FAILED"}
        /\ job.completed_at # None
        /\ job.completed_at[1] < cutoff_time
      kept(job) == ~expired(job)
      left == SelectSeq(js, kept)
  IN [jobs |-> left, count |-> Len(js) - Len(left),
      save |-> Len(js) - Len(left) > 0]

\* JobQueue.clear_all_jobs
clear_all_jobs(js) ==
  [jobs |-> <<>>, count |-> Len(js), save |-> Len(js) > 0]

\* A tally that counts only the first job
tally_first(js, stats) ==
  IF js = <<>> THEN stats
  ELSE [stats EXCEPT ![JobStatus[Head(js).status]] = @ + 1]

\* The loop of get_queue_stats: stats[job.status.value] += 1 for each job
RECURSIVE tally(_, _)
tally(js, stats) ==
  IF js = <<>> THEN stats
  ELSE tally(Tail(js),
             [stats EXCEPT ![JobStatus[Head(js).status]] = @ + 1])

\* JobQueue.get_queue_stats: a zero for every status, then the loop
get_queue_stats(js) ==
  tally(js, [s \in {JobStatus[n] : n \in DOMAIN JobStatus} |-> 0])

\* JobQueue.get_job
get_job(js, id) ==
  IF index_of(js, id) = 0 THEN None ELSE Some(js[index_of(js, id)])

\* JobQueue.__init__ over file f: an empty map, then load_from_file
JobQueue(f) == load_from_file(f, <<>>)

\* ----------------------------------------------------------- the state

VARIABLES
  file,      \* the content of the queue file
  jobs,      \* jobs[q]: self.jobs of the JobQueue instance of process q
  now,       \* the last value datetime.now() returned
  ids,       \* the number of ids uuid4 has produced
  last,      \* the last queue call: its arguments and what it returned
  failures,  \* failures[id]: the fail_job calls made on job id (history)
  pc,        \* pc[w]: where worker process w is in its poll loop
  delivered, \* the ids of the jobs a worker's dequeue returned (history)
  saving,    \* the save_to_file in progress, step by step
  reading,   \* the load_from_file in progress, step by step
  lock,      \* the thread that holds self._lock of the shared JobQueue
  sup,       \* the Orchestrator: its fields, its status and pid files
  main,      \* where the main thread of the orchestrator is
  monitor,   \* where the monitor thread of the orchestrator is
  procs,     \* the worker processes the orchestrator has spawned
  events,    \* what the orchestrator has done, in order (history)
  loop       \* the poll loop of a worker process

vars ==
  <<file, jobs, now, ids, last, failures, pc, delivered, saving, reading,
    lock, sup, main, monitor, procs, events, loop>>

\* The variables of each part of the system outside the queue
fileVars == <<saving, reading>>
lockVars == <<lock>>
supVars == <<sup, main, monitor, procs, events>>
loopVars == <<loop>>

\* What the scenarios that take save_to_file and load_from_file as single
\* steps in a process without threads leave alone.
beside == <<fileVars, lockVars, supVars, loopVars>>

\* No save and no load in progress
NoSave ==
  [at |-> "idle", attempt |-> 0, tmp |-> None, before |-> None,
   outcome |-> "none", failed |-> 0, snapshots |-> <<>>]
NoRead ==
  [at |-> "idle", attempt |-> 0, onpath |-> FALSE, handle |-> None,
   content |-> None, since |-> 0]

FileIdle == saving = NoSave /\ reading = NoRead
\* No thread holds the lock
LockIdle == lock = None
\* No orchestrator
SupIdle ==
  /\ sup = <<>> /\ main = <<>> /\ monitor = <<>> /\ procs = <<>>
  /\ events = <<>>
\* No worker loop
LoopIdle == loop = <<>>

BesideInit == FileIdle /\ LockIdle /\ SupIdle /\ LoopIdle

\* The type filters given to dequeue: none, the empty list, and lists.
Filters == {None, Some({}), Some({"EVALUATE_TASK"}), Some({"COMPILE_CHECK"})}

\* The values datetime.now() can return next: the clock does not go back.
Later == {t \in Times : t >= now}

\* The record of a call: op, the arguments id, worker, types and allow, and
\* the results job (the id of the job returned) and count.  For dequeue,
\* worker is the caller when a job was returned to it, and count is the
\* number of attempts its reload made on the file.
Call(op, id, worker, types, allow, job, count) ==
  [op |-> op, id |-> id, worker |-> worker, types |-> types,
   allow |-> allow, job |-> job, count |-> count]

\* The file after an operation that found file f and left the map js
saved(f, js, save) == IF save THEN save_to_file(js, f, 0) ELSE f

\* q calls enqueue(job_type, parameters, max_retries)
Enqueue(q, job_type, parameters, max_retries) ==
  /\ ids < MaxJobs
  /\ \E t \in Later :
       \E js \in {enqueue(jobs[q], ids + 1, job_type, parameters,
                          max_retries, t)} :
          /\ jobs' = [jobs EXCEPT ![q] = js]
          /\ file' = saved(file, js, TRUE)
          /\ now' = t
          /\ ids' = ids + 1
          /\ last' = Call("enqueue", None, None, None, FALSE,
                          Some(ids + 1), 0)

\* q calls dequeue(worker_id, job_types): reload, scan, claim, save
Dequeue(q, worker_id, job_types) ==
  \E l \in {load_from_file(file, jobs[q])}, t \in Later :
    \E r \in {dequeue(l.jobs, worker_id, job_types, t)} :
       /\ jobs' = [jobs EXCEPT ![q] = r.jobs]
       /\ file' = saved(l.file, r.jobs, r.save)
       /\ now' = IF r.job # None THEN t ELSE now
       /\ last' = Call("dequeue", None,
                       IF r.job # None THEN Some(worker_id) ELSE None,
                       job_types, FALSE, r.job, l.attempts)
       /\ UNCHANGED ids

\* q calls complete_job(job_id, result)
CompleteJob(q, id, result) ==
  \E t \in Later :
    \E r \in {complete_job(jobs[q], id, result, t)} :
       /\ jobs' = [jobs EXCEPT ![q] = r.jobs]
       /\ file' = saved(file, r.jobs, r.save)
       /\ now' = IF r.save THEN t ELSE now
       /\ last' = Call("complete_job", Some(id), None, None, FALSE, None, 0)
       /\ UNCHANGED ids

\* q calls fail_job(job_id, error, allow_retry)
FailJob(q, id, error, allow_retry) ==
  \E t \in Later :
    \E r \in {fail_job(jobs[q], id, error, allow_retry, t)} :
       /\ jobs' = [jobs EXCEPT ![q] = r.jobs]
       /\ file' = saved(file, r.jobs, r.save)
       /\ now' = IF r.save /\ r.jobs[index_of(r.jobs, id)].status = "FAILED"
                   THEN t ELSE now
       /\ last' = Call("fail_job", Some(id), None, None, allow_retry,
                       None, 0)
       /\ UNCHANGED ids

\* q calls retry_failed_jobs()
RetryFailedJobs(q) ==
  \E r \in {retry_failed_jobs(jobs[q])} :
     /\ jobs' = [jobs EXCEPT ![q] = r.jobs]
     /\ file' = saved(file, r.jobs, r.save)
     /\ last' = Call("retry_failed_jobs", None, None, None, FALSE, None,
                     r.count)
     /\ UNCHANGED <<now, ids>>

\* q calls reset_running_jobs()
ResetRunningJobs(q) ==
  \E r \in {reset_running_jobs(jobs[q])} :
     /\ jobs' = [jobs EXCEPT ![q] = r.jobs]
     /\ file' = saved(file, r.jobs, r.save)
     /\ last' = Call("reset_running_jobs", None, None, None, FALSE, None,
                     r.count)
     /\ UNCHANGED <<now, ids>>

\* ------------------------------------------- one process, the whole API

Init ==
  /\ file = NoFile
  /\ jobs = [q \in {"main"} |-> JobQueue(NoFile).jobs]
  /\ now = 1
  /\ ids = 0
  /\ last = Call("init", None, None, None, FALSE, None, 0)
  /\ failures = [id \in 1..MaxJobs |-> 0]
  /\ pc = <<>>
  /\ delivered = {}
  /\ BesideInit

ApiEnqueue ==
  /\ \E request \in Requests, max_retries \in 0..MaxRetries :
       Enqueue("main", request.job_type, request.parameters, max_retries)
  /\ UNCHANGED <<failures, pc, delivered, beside>>

ApiDequeue ==
  /\ \E worker_id \in WorkerIds, job_types \in Filters :
       Dequeue("main", worker_id, job_types)
  /\ UNCHANGED <<failures, pc, delivered, beside>>

\* The id given may be one no job has.
ApiCompleteJob ==
  /\ \E id \in 1..MaxJobs, result \in Results :
       CompleteJob("main", id, result)
  /\ UNCHANGED <<failures, pc, delivered, beside>>

ApiFailJob ==
  /\ \E id \in 1..MaxJobs, error \in Errors, allow_retry \in BOOLEAN :
       FailJob("main", id, error, allow_retry)
  /\ UNCHANGED <<failures, pc, delivered, beside>>

ApiRetryFailedJobs ==
  RetryFailedJobs("main") /\ UNCHANGED <<failures, pc, delivered, beside>>

ApiResetRunningJobs ==
  ResetRunningJobs("main") /\ UNCHANGED <<failures, pc, delivered, beside>>

\* One process using the queue in any order.
Next ==
  \/ ApiEnqueue
  \/ ApiDequeue
  \/ ApiCompleteJob
  \/ ApiFailJob
  \/ ApiRetryFailedJobs
  \/ ApiResetRunningJobs

Spec == Init /\ [][Next]_vars

\* ------------------------------------------------- claims on Spec

Main == "main"

\* The status changes the transition graph allows.
AllowedChanges ==
  {<<"PENDING", "RUNNING">>, <<"RUNNING", "COMPLETED">>,
   <<"RUNNING", "PENDING">>, <<"RUNNING", "FAILED">>}

\* C1: whatever the queue operation, a job's status changes only along
\* Pending->Running, Running->Completed, Running->Pending or
\* Running->Failed.
C1_TransitionGraph ==
  [][\A i \in 1..Len(jobs[Main]) :
       \/ jobs'[Main][i].status = jobs[Main][i].status
       \/ <<jobs[Main][i].status, jobs'[Main][i].status>> \in AllowedChanges
    ]_vars

\* C4: every job has 0 <= retry_count <= max_retries, in memory and in the
\* map a reload would give.
C4_BoundedRetries ==
  \A js \in {jobs[Main], JobQueue(file).jobs} :
    \A i \in 1..Len(js) :
      0 <= js[i].retry_count /\ js[i].retry_count <= js[i].max_retries

\* A fail_job that allowed a retry found the budget spent: the job is
\* Failed with retry_count = max_retries > 0.
C4_Witness ==
  /\ last.op = "fail_job" /\ last.allow
  /\ \E i \in 1..Len(jobs[Main]) :
       /\ jobs[Main][i].id = last.id[1]
       /\ jobs[Main][i].status = "FAILED"
       /\ jobs[Main][i].max_retries > 0
       /\ jobs[Main][i].retry_count = jobs[Main][i].max_retries

\* C5: a dequeue with a non-empty type list marks Running, and returns,
\* only a job whose type is in the list, and it returns a job whenever the
\* reloaded map holds a Pending job whose type is in the list.
C5_TypeFilteredDequeue ==
  [][(last'.op = "dequeue" /\ last'.types # None /\ last'.types[1] # {}) =>
       LET before == load_from_file(file, jobs[Main]).jobs
           after == jobs'[Main]
           types == last'.types[1]
       IN /\ Len(after) = Len(before)
          /\ \A i \in 1..Len(before) :
               (after[i].status = "RUNNING" /\ before[i].status # "RUNNING")
                 => after[i].job_type \in types
          /\ last'.job # None =>
               /\ get_job(after, last'.job[1]) # None
               /\ get_job(after, last'.job[1])[1].job_type \in types
               /\ get_job(before, last'.job[1])[1].status = "PENDING"
          /\ (\E i \in 1..Len(before) :
                before[i].status = "PENDING" /\ before[i].job_type \in types)
               => last'.job # None
    ]_vars

\* dequeue(worker, [CompileCheck]) passed over a Pending EvaluateTask job
\* and returned the CompileCheck job behind it.
C5_Witness ==
  /\ last.op = "dequeue" /\ last.types = Some({"COMPILE_CHECK"})
  /\ last.job = Some(2)
  /\ Len(jobs[Main]) = 2
  /\ jobs[Main][1].job_type = "EVALUATE_TASK"
  /\ jobs[Main][1].status = "PENDING"
  /\ jobs[Main][2].job_type = "COMPILE_CHECK"
  /\ jobs[Main][2].status = "RUNNING"

\* C6: reset_running_jobs turns exactly the Running jobs into Pending jobs
\* without worker_id and started_at, changes nothing else of them (so not
\* retry_count) and no other job, returns their number, and each of them is
\* Pending, so claimable, in the map the next dequeue reloads.
C6_CrashRecovery ==
  [][last'.op = "reset_running_jobs" =>
       LET before == jobs[Main]
           after == jobs'[Main]
           reloaded == load_from_file(file', after).jobs
           hit == {i \in 1..Len(before) : before[i].status = "RUNNING"}
       IN /\ Len(after) = Len(before)
          /\ Len(reloaded) = Len(before)
          /\ last'.count = Cardinality(hit)
          /\ \A i \in 1..Len(before) :
               IF i \in hit
                 THEN /\ after[i] = [before[i] EXCEPT !.status = "PENDING",
                                                      !.worker_id = None,
                                                      !.started_at = None]
                      /\ claimable(reloaded[i], None)
                      /\ claimable(reloaded[i], Some({before[i].job_type}))
                 ELSE after[i] = before[i]
    ]_vars

\* reset_running_jobs found two Running jobs, one of them on a retry, and
\* returned 2.
C6_Witness ==
  /\ last.op = "reset_running_jobs" /\ last.count = 2
  /\ \A i \in 1..Len(jobs[Main]) :
       jobs[Main][i].status = "PENDING" /\ jobs[Main][i].worker_id = None
  /\ \E i \in 1..Len(jobs[Main]) : jobs[Main][i].retry_count > 0

C8_PersistenceRoundTrip ==
  file.kind = "object" =>
    LET fresh == JobQueue(file).jobs
        mine == jobs[Main]
    IN /\ Len(fresh) = Len(mine)
       /\ {fresh[i].id : i \in 1..Len(fresh)}
            = {mine[i].id : i \in 1..Len(mine)}
       /\ get_queue_stats(fresh) = get_queue_stats(mine)
       /\ \A i \in 1..Len(mine) :
            \A f \in JobFields : fresh[i][f] = mine[i][f]

\* The saved map holds a job with every optional field set: it was
\* claimed, failed with a retry, claimed again and completed.
C8_Witness ==
  /\ file.kind = "object"
  /\ JobQueue(file).jobs = jobs[Main]
  /\ \E i \in 1..Len(jobs[Main]) :
       /\ jobs[Main][i].status = "COMPLETED"
       /\ jobs[Main][i].retry_count > 0
       /\ jobs[Main][i].worker_id # None
       /\ jobs[Main][i].started_at # None
       /\ jobs[Main][i].completed_at # None
       /\ jobs[Main][i].result # None

\* ------------------------------- the retry scenario (test_job_retry_logic)
\* One process enqueues jobs with any max_retries up to RetryBudget, and
\* then only dequeues jobs and fails the job it holds, allowing the retry.

RetryEnqueue ==
  /\ \E request \in Requests, max_retries \in 0..RetryBudget :
       Enqueue(Main, request.job_type, request.parameters, max_retries)
  /\ UNCHANGED <<failures, pc, delivered, beside>>

RetryDequeue ==
  /\ \E worker_id \in WorkerIds : Dequeue(Main, worker_id, None)
  /\ UNCHANGED <<failures, pc, delivered, beside>>

\* fail_job(job.id, error, allow_retry=True) on a job a dequeue returned
RetryFailJob ==
  \E i \in 1..Len(jobs[Main]), error \in Errors :
    /\ jobs[Main][i].status = "RUNNING"
    /\ FailJob(Main, jobs[Main][i].id, error, TRUE)
    /\ failures' = [failures EXCEPT ![jobs[Main][i].id] = @ + 1]
    /\ UNCHANGED <<pc, delivered, beside>>

NextRetry ==
  \/ RetryEnqueue
  \/ RetryDequeue
  \/ RetryFailJob

SpecRetry == Init /\ [][NextRetry]_vars

\* C3: a job enqueued with max_retries = N and failed k times, each time
\* after a dequeue and with allow_retry: k never exceeds N + 1; right after
\* failure k <= N the job is Pending with retry_count = k (and it keeps that
\* count when it is dequeued again); after failure N + 1 it is Failed with
\* retry_count = N.
C3_RetryExhaustion ==
  \A i \in 1..Len(jobs[Main]) :
    LET job == jobs[Main][i]
        k == failures[job.id]
        N == job.max_retries
    IN /\ k <= N + 1
       /\ k <= N =>
            /\ job.retry_count = k
            /\ job.status \in {"PENDING", "RUNNING"}
            /\ (last.op = "fail_job" /\ last.id = Some(job.id))
                 => job.status = "PENDING"
       /\ k = N + 1 => job.status = "FAILED" /\ job.retry_count = N

\* The third failure of a job enqueued with max_retries = 2: Failed, with
\* retry_count 2, while the other job is back to Pending after its first.
C3_Witness ==
  /\ last.op = "fail_job" /\ last.allow
  /\ \E i \in 1..Len(jobs[Main]) :
       /\ jobs[Main][i].id = last.id[1]
       /\ jobs[Main][i].max_retries = 2
       /\ failures[jobs[Main][i].id] = 3
       /\ jobs[Main][i].status = "FAILED"
       /\ jobs[Main][i].retry_count = 2
  /\ \E i \in 1..Len(jobs[Main]) :
       /\ failures[jobs[Main][i].id] = 1
       /\ jobs[Main][i].status = "PENDING"
       /\ jobs[Main][i].retry_count = 1

\* ----------------------- start-up over a file found on disk (recovery tests)
\* A process constructs its JobQueue over a file that was left by earlier
\* runs, possibly damaged, and then uses the queue.

\* The i-th job of the earlier runs, in one of the four statuses the queue
\* gives; Sample(0) is a job on its second run, with every field a worker
\* sets.
Sample(i) ==
  LET request == CHOOSE r \in Requests :
                   r.job_type = IF i % 2 = 1 THEN "EVALUATE_TASK"
                                             ELSE "COMPILE_CHECK"
      fresh == create(100 + i, request.job_type, request.parameters, 2, 1)
      running == mark_running(fresh, "worker-1", 1)
      result == CHOOSE r \in Results : TRUE
  IN CASE i = 0 -> mark_running(mark_failed(running, "boom", TRUE, 1),
                                "worker-2", 1)
       [] i > 0 /\ i % 4 = 1 -> fresh
       [] i > 0 /\ i % 4 = 2 -> running
       [] i > 0 /\ i % 4 = 3 -> mark_completed(running, result, 1)
       [] OTHER -> mark_failed(running, "boom", FALSE, 1)

\* The damage done to one record: a member removed, an enum value the enum
\* does not have, the record replaced by {"corrupted": true}, or by a JSON
\* string.
NoDefect == [how |-> "none", field |-> ""]
Defects ==
  {[how |-> "missing", field |-> f] : f \in JobFields}
    \cup {[how |-> "unknown", field |-> f] : f \in {"status", "job_type"}}
    \cup {[how |-> "notajob", field |-> ""], [how |-> "notadict", field |-> ""]}

\* The entry of the jobs member for Sample(0) with the damage done
damaged(defect) ==
  LET d == to_dict(Sample(0))
  IN CASE defect.how = "missing" ->
            [key |-> d.id, kind |-> "object",
             val |-> [x \in DOMAIN d \ {defect.field} |-> d[x]]]
       [] defect.how = "unknown" ->
            [key |-> d.id, kind |-> "object",
             val |-> [d EXCEPT ![defect.field] = "INVALID_STATUS"]]
       [] defect.how = "notajob" ->
            [key |-> d.id, kind |-> "object", val |-> [corrupted |-> TRUE]]
       [] OTHER -> [key |-> d.id, kind |-> "string", val |-> "corrupted"]

\* The files found: missing, empty, unparsable, valid JSON of the wrong
\* shape, or an object with n well-formed records and at most one damaged
\* record, which is the at-th entry.
LoadCases ==
  {[kind |-> k, n |-> 0, defect |-> NoDefect, at |-> 0] :
     k \in {"missing", "blank", "garbage", "nonobject", "badjobs"}}
    \cup {[kind |-> "object", n |-> n, defect |-> NoDefect, at |-> 0] :
            n \in 0..MaxGood}
    \cup {c \in [kind : {"object"}, n : 0..MaxGood, defect : Defects,
                 at : 1..(MaxGood + 1)] : c.at <= c.n + 1}

LoadFile(c) ==
  LET good(i) == document(<<Sample(i)>>).jobs[1]
  IN IF c.kind # "object" THEN [kind |-> c.kind, jobs |-> <<>>]
     ELSE IF c.at = 0
       THEN [kind |-> "object", jobs |-> [k \in 1..c.n |-> good(k)]]
     ELSE [kind |-> "object",
           jobs |-> [k \in 1..(c.n + 1) |->
                       IF k < c.at THEN good(k)
                       ELSE IF k = c.at THEN damaged(c.defect)
                       ELSE good(k - 1)]]

InitLoad ==
  /\ \E c \in LoadCases : file = LoadFile(c)
  /\ jobs = [q \in {Main} |-> <<>>]
  /\ now = 1
  /\ ids = 0
  /\ last = Call("start", None, None, None, FALSE, None, 0)
  /\ failures = [id \in 1..MaxJobs |-> 0]
  /\ pc = <<>>
  /\ delivered = {}
  /\ BesideInit

\* JobQueue(persistence_file): the constructor loads the file
LoadConstruct ==
  /\ last.op = "start"
  /\ \E l \in {JobQueue(file)} :
       /\ jobs' = [jobs EXCEPT ![Main] = l.jobs]
       /\ file' = l.file
       /\ last' = Call("JobQueue", None, None, None, FALSE, None, l.attempts)
  /\ UNCHANGED <<now, ids, failures, pc, delivered, beside>>

LoadEnqueue ==
  /\ last.op # "start"
  /\ \E request \in Requests, max_retries \in 0..MaxRetries :
       Enqueue(Main, request.job_type, request.parameters, max_retries)
  /\ UNCHANGED <<failures, pc, delivered, beside>>

LoadDequeue ==
  /\ last.op # "start"
  /\ \E worker_id \in WorkerIds : Dequeue(Main, worker_id, None)
  /\ UNCHANGED <<failures, pc, delivered, beside>>

\* Another writer leaves a text that is no JSON at the queue path while
\* the queue object lives.
ExternalWrite ==
  /\ last.op \notin {"start", "write_text"}
  /\ file' = [kind |-> "garbage", jobs |-> <<>>]
  /\ last' = Call("write_text", None, None, None, FALSE, None, 0)
  /\ UNCHANGED <<jobs, now, ids, failures, pc, delivered, beside>>

NextLoad ==
  \/ LoadConstruct
  \/ LoadEnqueue
  \/ LoadDequeue
  \/ ExternalWrite

SpecLoad == InitLoad /\ [][NextLoad]_vars

\* ------------------------------------------------- claims on SpecLoad

\* A record as to_dict wrote it, and the job it was written from.
intact(e) ==
  e.kind = "object" /\ \E i \in 0..MaxGood : e.val = to_dict(Sample(i))
original(e) ==
  Sample(CHOOSE i \in 0..MaxGood : e.val = to_dict(Sample(i)))

\* The jobs of the intact records of file f, in file order.
recovered(f) ==
  LET kept == SelectSeq(f.jobs, intact)
  IN [k \in 1..Len(kept) |-> original(kept[k])]

\* Every record of f but the m-th is intact.
others_intact(f, m) ==
  \A k \in 1..Len(f.jobs) : k # m => intact(f.jobs[k])

unknown_enum(e) ==
  \/ \A n \in DOMAIN JobStatus : JobStatus[n] # e.val.status
  \/ \A n \in DOMAIN JobType : JobType[n] # e.val.job_type

\* Malformed, as the claim has it: a record that is not a job at all, or
\* lacks any field, or has an unknown status or job_type value.
malformed(e) ==
  \/ e.kind # "object"
  \/ ~(JobFields \subseteq DOMAIN e.val)
  \/ unknown_enum(e)

\* C9 as stated: loading a parsable file of N well-formed records and one
\* malformed record (any missing field, unknown status or job_type, not a
\* job) gives exactly the N well-formed jobs, fields intact, at the first
\* attempt.
C9_MalformedSkipped ==
  [][(last'.op = "JobQueue" /\ file.kind = "object") =>
       \A m \in 1..Len(file.jobs) :
         (others_intact(file, m) /\ malformed(file.jobs[m])) =>
            /\ jobs'[Main] = recovered(file)
            /\ Len(jobs'[Main]) = Len(file.jobs) - 1
            /\ last'.count = 1
    ]_vars

\* The members a record cannot lack.
NeededFields ==
  {"id", "job_type", "status", "parameters", "created_at", "started_at",
   "completed_at"}

\* A record the load rejects: not a JSON object, or lacking one of id,
\* job_type, status, parameters, created_at, started_at, completed_at, or
\* with an unknown status or job_type value.
rejected(e) ==
  \/ e.kind # "object"
  \/ ~(NeededFields \subseteq DOMAIN e.val)
  \/ unknown_enum(e)

\* A record that lacks only some of result, retry_count, max_retries and
\* worker_id.
defaulted(e) ==
  /\ e.kind = "object"
  /\ NeededFields \subseteq DOMAIN e.val
  /\ DOMAIN e.val \subseteq JobFields
  /\ DOMAIN e.val # JobFields
  /\ ~unknown_enum(e)

\* C9, amended: loading a parsable file of N well-formed records and one
\* other record succeeds at the first attempt and leaves the file alone.
\* When the other record is rejected (not an object; id, job_type, status,
\* parameters, created_at, started_at or completed_at missing; unknown
\* status or job_type) the map holds exactly the N well-formed jobs, fields
\* intact.  When it lacks only result, retry_count, max_retries or
\* worker_id it is loaded as well, the absent member taking its default
\* (None, 0, 3, None), and the map holds N + 1 jobs.
C9_PerRecordTolerance ==
  [][(last'.op = "JobQueue" /\ file.kind = "object") =>
       \A m \in 1..Len(file.jobs) :
         others_intact(file, m) =>
           /\ rejected(file.jobs[m]) =>
                /\ jobs'[Main] = recovered(file)
                /\ Len(jobs'[Main]) = Len(file.jobs) - 1
                /\ last'.count = 1
                /\ file' = file
           /\ defaulted(file.jobs[m]) =>
                /\ Len(jobs'[Main]) = Len(file.jobs)
                /\ \A k \in 1..Len(file.jobs) :
                     k # m => jobs'[Main][k] = original(file.jobs[k])
                /\ \A f \in DOMAIN file.jobs[m].val :
                     jobs'[Main][m][f] = Sample(0)[f]
                /\ \A f \in JobFields \ DOMAIN file.jobs[m].val :
                     jobs'[Main][m][f] =
                       [result |-> None, retry_count |-> 0, max_retries |-> 3,
                        worker_id |-> None][f]
                /\ last'.count = 1
                /\ file' = file
    ]_vars

\* The constructor met three well-formed records and, second in the file,
\* a record whose status is no JobStatus value: it holds the three jobs.
C9_Witness ==
  /\ last.op = "JobQueue" /\ last.count = 1
  /\ file.kind = "object" /\ Len(file.jobs) = 4
  /\ file.jobs[2].kind = "object"
  /\ DOMAIN file.jobs[2].val = JobFields
  /\ file.jobs[2].val.status = "INVALID_STATUS"
  /\ others_intact(file, 2)
  /\ Len(jobs[Main]) = 3
  /\ jobs[Main] = recovered(file)

\* The state a constructor leaves when it gave an unparsable file up.
healed ==
  /\ last.op = "JobQueue" /\ last.count = 5
  /\ file = document(<<>>)

\* C10: a constructor that finds the file unparsable makes 5 attempts and
\* ends with an empty job map and with the empty map written to the file,
\* all five statistics being 0; an enqueue that follows gives pending = 1,
\* in memory and in the file.
C10_SelfHeal ==
  [][/\ (last'.op = "JobQueue" /\ file.kind = "garbage") =>
          /\ last'.count = 5
          /\ jobs'[Main] = <<>>
          /\ file' = document(<<>>)
          /\ JobQueue(file').jobs = <<>>
          /\ \A n \in DOMAIN JobStatus :
               get_queue_stats(jobs'[Main])[JobStatus[n]] = 0
     /\ (healed /\ last'.op = "enqueue") =>
          /\ Len(jobs'[Main]) = 1
          /\ get_queue_stats(jobs'[Main])["pending"] = 1
          /\ get_queue_stats(JobQueue(file').jobs)["pending"] = 1
    ]_vars

\* The constructor gave an unparsable file up after 5 attempts and left an
\* empty map in memory and in the file.
C10_Witness ==
  /\ healed
  /\ jobs[Main] = <<>>
  /\ JobQueue(file).jobs = <<>>

\* ------------------- a producer and worker processes sharing the file
\* The producer (evaluate_epoch.py) enqueues its jobs and then watches
\* them with reload_from_file; each worker (workers/task-worker.py) polls
\* dequeue(worker_id), runs the job it gets and reports with complete_job
\* or fail_job.  Every process has its own JobQueue over the one file.
\* The lock of a JobQueue excludes only the threads of its process, so the
\* read of the file and the replacement of the file are the atomic steps.

Producer == "producer"
\* One worker is enough to show what the processes do to each other.
Workers == {"worker-1"}
Procs == {Producer} \cup Workers

Idle == [at |-> "poll", job |-> None]

InitMP ==
  /\ file = NoFile
  /\ jobs = [q \in Procs |-> JobQueue(NoFile).jobs]
  /\ now = 1
  /\ ids = 0
  /\ last = Call("init", None, None, None, FALSE, None, 0)
  /\ failures = [id \in 1..MaxJobs |-> 0]
  /\ pc = [w \in Workers |-> Idle]
  /\ delivered = {}
  /\ BesideInit

\* _enqueue_evaluation_jobs: enqueue changes the producer's map and saves
\* it; it does not read the file.
ProducerEnqueue ==
  /\ \E request \in Requests :
       Enqueue(Producer, request.job_type, request.parameters, MaxRetries)
  /\ UNCHANGED <<failures, pc, delivered, beside>>

\* _monitor_evaluation_jobs: reload_from_file
ProducerReload ==
  /\ \E l \in {load_from_file(file, jobs[Producer])} :
       /\ jobs' = [jobs EXCEPT ![Producer] = l.jobs]
       /\ file' = l.file
  /\ UNCHANGED <<now, ids, last, failures, pc, delivered, beside>>

\* dequeue, first half: load_from_file
WorkerLoad(w) ==
  /\ pc[w].at = "poll"
  /\ \E l \in {load_from_file(file, jobs[w])} :
       /\ jobs' = [jobs EXCEPT ![w] = l.jobs]
       /\ file' = l.file
  /\ pc' = [pc EXCEPT ![w].at = "loaded"]
  /\ UNCHANGED <<now, ids, last, failures, delivered, beside>>

\* dequeue, second half: the scan of the map loaded, and when a job is
\* claimed the save; the worker has the job dequeue returns, or polls again
WorkerClaim(w) ==
  /\ pc[w].at = "loaded"
  /\ \E t \in Later :
       \E r \in {dequeue(jobs[w], w, None, t)} :
          /\ jobs' = [jobs EXCEPT ![w] = r.jobs]
          /\ file' = saved(file, r.jobs, r.save)
          /\ now' = IF r.job # None THEN t ELSE now
          /\ last' = Call("dequeue", None, None, None, FALSE, r.job, 0)
          /\ pc' = [pc EXCEPT ![w] = IF r.job # None
                                       THEN [at |-> "run", job |-> r.job]
                                       ELSE Idle]
          /\ delivered' = IF r.job # None THEN delivered \cup {r.job[1]}
                                          ELSE delivered
  /\ UNCHANGED <<ids, failures, beside>>

\* The job is an evaluation and ran well: complete_job(job.id, result)
WorkerComplete(w) ==
  /\ pc[w].at = "run"
  /\ get_job(jobs[w], pc[w].job[1])[1].job_type = "EVALUATE_TASK"
  /\ \E result \in Results : CompleteJob(w, pc[w].job[1], result)
  /\ pc' = [pc EXCEPT ![w] = Idle]
  /\ UNCHANGED <<failures, delivered, beside>>

\* The job is of another type, or went wrong: fail_job(job.id, error)
WorkerFail(w) ==
  /\ pc[w].at = "run"
  /\ \E error \in Errors : FailJob(w, pc[w].job[1], error, TRUE)
  /\ pc' = [pc EXCEPT ![w] = Idle]
  /\ UNCHANGED <<failures, delivered, beside>>

\* One step of the poll loop of worker w
WorkerStep(w) ==
  \/ WorkerLoad(w)
  \/ WorkerClaim(w)
  \/ WorkerComplete(w)
  \/ WorkerFail(w)

NextMP ==
  \/ ProducerEnqueue
  \/ ProducerReload
  \/ \E w \in Workers : WorkerStep(w)

\* No worker stops polling.
SpecMP ==
  InitMP /\ [][NextMP]_vars /\ \A w \in Workers : WF_vars(WorkerStep(w))

\* ------------------------------------------------- claims on SpecMP

\* C2: every job whose enqueue has returned is eventually returned by the
\* dequeue of a worker (the workers poll without a type filter, which
\* admits every job).
C2_AtLeastOnceDelivery ==
  \A id \in 1..MaxJobs : (ids >= id) ~> (id \in delivered)

\* ---------------------------------------- further claims on Spec

\* C11: complete_job and fail_job with an id no job has leave the job map
\* and the file as they were and return a value that is false to the
\* caller, and get_job of that id returns None.
C11_UnknownId ==
  [][(/\ last'.op \in {"complete_job", "fail_job"}
      /\ index_of(jobs[Main], last'.id[1]) = 0) =>
       /\ jobs' = jobs
       /\ file' = file
       /\ JobQueue(file').jobs = JobQueue(file).jobs
       /\ get_job(jobs'[Main], last'.id[1]) = None
       /\ \A t \in Times, result \in Results, error \in Errors :
            /\ ~truthy(complete_job(jobs[Main], last'.id[1], result,
                                    t).returns)
            /\ ~truthy(fail_job(jobs[Main], last'.id[1], error, last'.allow,
                                t).returns)
    ]_vars

\* complete_job was called with the id 2 while the queue, saved, holds
\* only job 1, Running.
C11_Witness ==
  /\ last.op = "complete_job" /\ last.id = Some(2)
  /\ Len(jobs[Main]) = 1
  /\ jobs[Main][1].id = 1 /\ jobs[Main][1].status = "RUNNING"
  /\ get_job(jobs[Main], 2) = None
  /\ file = document(jobs[Main])

\* ------------- save_to_file and load_from_file, one system call at a time
\* A writer process enqueues jobs; each enqueue runs save_to_file, whose
\* calls (mkstemp, write, flush and fsync, os.replace) may each fail.  A
\* reader process runs load_from_file again and again: exists, open, read,
\* parse.  An open file is an inode: a handle opened on the queue path keeps
\* the old inode when os.replace gives the path a new one.

Writer == "writer"
Reader == "reader"

\* What a file holds before anything is written to it, and while a JSON
\* text is written to it.
Blank == [kind |-> "blank", jobs |-> <<>>]
Truncated == [kind |-> "garbage", jobs |-> <<>>]

\* os.replace done before the dump is complete
flushed_early(tmp) == TRUE

\* The with block of save_to_file was left: json.dump, flush and fsync are
\* done, and os.replace is the next statement.
flushed(tmp) == tmp.kind = "object"

\* The except clause of save_to_file letting one attempt too many through
after_failure_late(s) ==
  IF s.attempt < SaveAttempts
    THEN [s EXCEPT !.at = "mkstemp", !.attempt = @ + 1, !.tmp = None,
                   !.failed = @ + 1]
    ELSE [s EXCEPT !.at = "idle", !.tmp = None, !.failed = @ + 1,
                   !.outcome = "gaveup"]

\* The except clauses of save_to_file: the temporary file is unlinked, and
\* the next attempt follows unless this was the last one, which ends the
\* call with a message.
after_failure(s) ==
  IF s.attempt < SaveAttempts - 1
    THEN [s EXCEPT !.at = "mkstemp", !.attempt = @ + 1, !.tmp = None,
                   !.failed = @ + 1]
    ELSE [s EXCEPT !.at = "idle", !.tmp = None, !.failed = @ + 1,
                   !.outcome = "gaveup"]

\* The record of the enqueue whose save ended in state s
returned(s) ==
  IF s.at = "idle" THEN Call("enqueue", None, None, None, FALSE, Some(ids), 0)
                   ELSE last

InitFile ==
  /\ file = NoFile
  /\ jobs = [q \in {Writer, Reader} |-> JobQueue(NoFile).jobs]
  /\ now = 1
  /\ ids = 0
  /\ last = Call("init", None, None, None, FALSE, None, 0)
  /\ failures = [id \in 1..MaxJobs |-> 0]
  /\ pc = <<>>
  /\ delivered = {}
  /\ BesideInit

\* enqueue: the job is put in the map and save_to_file begins
FileEnqueue ==
  /\ saving.at = "idle"
  /\ ids < MaxJobs
  /\ \E request \in Requests, t \in Later :
       /\ jobs' = [jobs EXCEPT ![Writer] =
                     enqueue(@, ids + 1, request.job_type,
                             request.parameters, MaxRetries, t)]
       /\ now' = t
  /\ ids' = ids + 1
  /\ saving' = [saving EXCEPT !.at = "mkstemp", !.attempt = 0, !.tmp = None,
                              !.before = Some(file), !.outcome = "none",
                              !.failed = 0]
  /\ UNCHANGED <<file, last, failures, pc, delivered, reading,
                 lockVars, supVars, loopVars>>

\* tempfile.mkstemp: an empty file beside the queue file
SaveMkstemp ==
  /\ saving.at = "mkstemp"
  /\ saving' = [saving EXCEPT !.at = "write", !.tmp = Some(Blank)]
  /\ UNCHANGED <<file, jobs, now, ids, last, failures, pc, delivered, reading,
                 lockVars, supVars, loopVars>>

\* json.dump, flush, fsync: the text reaches the temporary file in pieces
SaveWrite ==
  /\ saving.at = "write"
  /\ saving.tmp[1].kind # "object"
  /\ saving' = [saving EXCEPT !.tmp =
                  IF saving.tmp[1] = Blank THEN Some(Truncated)
                                           ELSE Some(document(jobs[Writer]))]
  /\ UNCHANGED <<file, jobs, now, ids, last, failures, pc, delivered, reading,
                 lockVars, supVars, loopVars>>

\* os.replace: the path names the temporary file's inode from now on; a
\* handle open on the path keeps the inode it was opened on
SaveReplace ==
  /\ saving.at = "write"
  /\ flushed(saving.tmp[1])
  /\ file' = saving.tmp[1]
  /\ saving' = [saving EXCEPT !.at = "idle", !.tmp = None,
                              !.outcome = "saved",
                              !.snapshots = Append(@, saving.tmp[1])]
  /\ reading' = IF reading.onpath
                  THEN [reading EXCEPT !.onpath = FALSE,
                                       !.handle = Some(file)]
                  ELSE reading
  /\ last' = returned(saving')
  /\ UNCHANGED <<jobs, now, ids, failures, pc, delivered,
                 lockVars, supVars, loopVars>>

\* mkstemp, the write, fsync or os.replace raises
SaveFail ==
  /\ saving.at \in {"mkstemp", "write"}
  /\ saving' = after_failure(saving)
  /\ last' = returned(saving')
  /\ UNCHANGED <<file, jobs, now, ids, failures, pc, delivered, reading,
                 lockVars, supVars, loopVars>>

\* load_from_file: self.persistence_file.exists()
ReaderExists ==
  /\ reading.at = "idle"
  /\ file.kind # "missing"
  /\ reading' = [reading EXCEPT !.at = "exists", !.attempt = 0,
                                !.content = None,
                                !.since = Len(saving.snapshots)]
  /\ UNCHANGED <<file, jobs, now, ids, last, failures, pc, delivered, saving,
                 lockVars, supVars, loopVars>>

\* open(self.persistence_file, 'r')
ReaderOpen ==
  /\ reading.at = "exists"
  /\ reading' = [reading EXCEPT !.at = "open", !.onpath = TRUE,
                                !.handle = None, !.content = None]
  /\ UNCHANGED <<file, jobs, now, ids, last, failures, pc, delivered, saving,
                 lockVars, supVars, loopVars>>

\* f.read(): what the inode of the handle holds now
ReaderRead ==
  /\ reading.at = "open"
  /\ reading' = [reading EXCEPT
                   !.at = "read", !.onpath = FALSE, !.handle = None,
                   !.content = IF reading.onpath THEN Some(file)
                                                 ELSE reading.handle]
  /\ UNCHANGED <<file, jobs, now, ids, last, failures, pc, delivered, saving,
                 lockVars, supVars, loopVars>>

\* The rest of the attempt: the empty-file test, json.loads and the loop
\* over the records; a failed attempt is followed by the next one, and
\* the last one by the empty map (saved when the text was no JSON)
ReaderParse ==
  /\ reading.at = "read"
  /\ LET c == reading.content[1]
         failed == c.kind = "blank" \/ attempt_error(c) # ""
     IN IF failed /\ reading.attempt < LoadAttempts - 1
          THEN /\ reading' = [reading EXCEPT !.at = "exists",
                                             !.attempt = @ + 1]
               /\ UNCHANGED <<file, jobs,
                 lockVars, supVars, loopVars>>
          ELSE /\ reading' = [reading EXCEPT !.at = "idle"]
               /\ jobs' = [jobs EXCEPT ![Reader] =
                             IF failed THEN <<>>
                                       ELSE load_entries(c.jobs, <<>>)]
               /\ file' = IF failed /\ attempt_error(c) = "json"
                            THEN save_to_file(<<>>, file, 0) ELSE file
  /\ UNCHANGED <<now, ids, last, failures, pc, delivered, saving,
                 lockVars, supVars, loopVars>>

NextFile ==
  \/ FileEnqueue
  \/ SaveMkstemp
  \/ SaveWrite
  \/ SaveReplace
  \/ SaveFail
  \/ ReaderExists
  \/ ReaderOpen
  \/ ReaderRead
  \/ ReaderParse

SpecFile == InitFile /\ [][NextFile]_vars

\* ------------------------------------------------- claims on SpecFile

\* C12: what a load reads is a complete document: one of the snapshots
\* os.replace put on the path, and none older than the one that was on
\* the path when the load began; never an empty or a cut-off text.
C12_AtomicReplacement ==
  reading.content # None =>
    LET c == reading.content[1]
    IN /\ c.kind = "object"
       /\ reading.since >= 1
       /\ \E k \in reading.since..Len(saving.snapshots) :
            c = saving.snapshots[k]
       /\ \E n \in 0..Len(jobs[Writer]) :
            c = document(SubSeq(jobs[Writer], 1, n))

\* The reader opened the file, a save replaced it and the next save has
\* written half of its temporary file; the reader read the complete
\* document it had opened, which is no longer the one on the path.
C12_Witness ==
  /\ reading.at = "read"
  /\ reading.content = Some(saving.snapshots[1])
  /\ Len(saving.snapshots) = 2
  /\ file = saving.snapshots[2]
  /\ file # reading.content[1]

\* C13: save_to_file makes at most 3 attempts; until an os.replace
\* succeeds the file is as it was before the call, and it never holds a
\* partial document; when all 3 attempts failed the call ends, the file
\* still as before and no temporary file left, and enqueue returns the id.
C13_SaveFailure ==
  /\ saving.attempt < 3 /\ saving.failed <= 3
  /\ file.kind \in {"missing", "object"}
  /\ saving.at # "idle" => file = saving.before[1]
  /\ saving.outcome = "gaveup" =>
       /\ saving.at = "idle" /\ saving.failed = 3 /\ saving.attempt = 2
       /\ saving.tmp = None
       /\ file = saving.before[1]
       /\ file = save_to_file(jobs[Writer], saving.before[1], saving.failed)
       /\ last = Call("enqueue", None, None, None, FALSE, Some(ids), 0)
       /\ get_job(jobs[Writer], ids) # None
  /\ saving.outcome = "saved" =>
       /\ saving.failed < 3
       /\ file = save_to_file(jobs[Writer], saving.before[1], saving.failed)

\* The second enqueue gave up after 3 failed attempts: the file holds the
\* first job only, the map holds both.
C13_Witness ==
  /\ saving.outcome = "gaveup" /\ saving.failed = 3
  /\ Len(jobs[Writer]) = 2
  /\ file = document(SubSeq(jobs[Writer], 1, 1))
  /\ last.job = Some(2)

\* ------------------------------------------- further claims on SpecMP

\* C14: a mutating operation works on the map it reloads from the file:
\* after an enqueue the caller's map is the reloaded map with the new job
\* appended, after a complete_job or fail_job it is the reloaded map with
\* the one job changed, and in both cases the file holds that map.
C14_ReloadModifySave ==
  [][/\ ids' = ids + 1 =>
          LET reloaded == load_from_file(file, jobs[Producer]).jobs
              mine == jobs'[Producer]
          IN /\ Len(mine) = Len(reloaded) + 1
             /\ SubSeq(mine, 1, Len(mine) - 1) = reloaded
             /\ file' = document(mine)
     /\ \A w \in Workers :
          (pc[w].at = "run" /\ pc'[w].at = "poll") =>
            LET reloaded == load_from_file(file, jobs[w]).jobs
                mine == jobs'[w]
            IN /\ Len(mine) = Len(reloaded)
               /\ \A i \in 1..Len(reloaded) :
                    reloaded[i].id # pc[w].job[1] => mine[i] = reloaded[i]
               /\ file' = document(mine)
    ]_vars

\* --------------------------- two worker processes polling the same file
\* The producer enqueues; the two workers poll, and complete what they get.

InitRace ==
  /\ file = NoFile
  /\ jobs = [q \in {Producer} \cup WorkerIds |-> JobQueue(NoFile).jobs]
  /\ now = 1
  /\ ids = 0
  /\ last = Call("init", None, None, None, FALSE, None, 0)
  /\ failures = [id \in 1..MaxJobs |-> 0]
  /\ pc = [w \in WorkerIds |-> Idle]
  /\ delivered = {}
  /\ BesideInit

RaceLoad == \E w \in WorkerIds : WorkerLoad(w)

RaceClaim == \E w \in WorkerIds : WorkerClaim(w)

RaceComplete == \E w \in WorkerIds : WorkerComplete(w)

NextRace ==
  \/ ProducerEnqueue
  \/ RaceLoad
  \/ RaceClaim
  \/ RaceComplete

SpecRace == InitRace /\ [][NextRace]_vars

\* C15: nothing but the map a worker loaded decides what its dequeue
\* returns: the job returned was Pending in that map, whatever the file
\* says by then (another worker may hold it), and the save makes the
\* file name this worker as the job's worker: the last writer wins.
C15_LastWriterWins ==
  [][\A w \in WorkerIds :
       (pc[w].at = "loaded" /\ pc'[w].at = "run") =>
         LET id == pc'[w].job[1]
             loaded == get_job(jobs[w], id)
             persisted == get_job(JobQueue(file').jobs, id)
         IN /\ loaded # None /\ loaded[1].status = "PENDING"
            /\ persisted # None
            /\ persisted[1].status = "RUNNING"
            /\ persisted[1].worker_id = Some(w)
            /\ file' = document(jobs'[w])
    ]_vars

\* Both workers loaded the file while job 1 was Pending; worker-1 claimed
\* it and saved, then worker-2 did: both hold job 1, and the file names
\* worker-2.
C15_Witness ==
  /\ pc["worker-1"] = [at |-> "run", job |-> Some(1)]
  /\ pc["worker-2"] = [at |-> "run", job |-> Some(1)]
  /\ get_job(jobs["worker-1"], 1)[1].worker_id = Some("worker-1")
  /\ get_job(jobs["worker-2"], 1)[1].worker_id = Some("worker-2")
  /\ get_job(JobQueue(file).jobs, 1)[1].worker_id = Some("worker-2")
  /\ last.op = "dequeue" /\ last.job = Some(1)

\* ------------------------ the threads of one process, one JobQueue
\* test_multiple_workers_concurrent_processing: the queue holds
\* MaxThreads * Quota Pending jobs; each thread calls dequeue until it has
\* completed Quota jobs.  A queue method runs with self._lock held; the
\* steps of dequeue are its reload, its scan with mark_running, and its
\* save.

ThreadIds == {"test-worker-" \o ToString(i) : i \in 1..MaxThreads}

\* threading.RLock ignored
lock_ignored(l, t) == TRUE

\* with self._lock: thread t can take the lock
lock_free(l, t) == l = None \/ l = Some(t)

\* create_test_jobs: the jobs enqueued before the threads start
test_jobs ==
  [i \in 1..(MaxThreads * Quota) |->
     create(i, "EVALUATE_TASK", [epoch |-> "epoch-001", task |-> "task-001"],
            2, 1)]

InitThreads ==
  /\ jobs = [q \in {Main} |-> test_jobs]
  /\ file = document(test_jobs)
  /\ now = 1
  /\ ids = MaxThreads * Quota
  /\ last = Call("enqueue", None, None, None, FALSE, Some(ids), 0)
  /\ failures = [id \in 1..MaxJobs |-> 0]
  /\ pc = [t \in ThreadIds |-> [at |-> "poll", job |-> None, got |-> <<>>]]
  /\ delivered = {}
  /\ lock = None
  /\ FileIdle /\ SupIdle /\ LoopIdle

\* dequeue: the lock is taken and the file reloaded
ThreadLoad(t) ==
  /\ pc[t].at = "poll"
  /\ Len(pc[t].got) < Quota
  /\ lock_free(lock, t)
  /\ lock' = Some(t)
  /\ \E l \in {load_from_file(file, jobs[Main])} :
       /\ jobs' = [jobs EXCEPT ![Main] = l.jobs]
       /\ file' = l.file
  /\ pc' = [pc EXCEPT ![t].at = "loaded"]
  /\ UNCHANGED <<now, ids, last, failures, delivered, fileVars, supVars,
                 loopVars>>

\* dequeue: the scan of self.jobs and mark_running; without a Pending job
\* it returns None and the lock is released
ThreadMark(t) ==
  /\ pc[t].at = "loaded"
  /\ \E r \in {dequeue(jobs[Main], t, None, now)} :
       /\ jobs' = [jobs EXCEPT ![Main] = r.jobs]
       /\ pc' = [pc EXCEPT ![t].at = IF r.job # None THEN "marked"
                                                     ELSE "poll",
                           ![t].job = r.job]
       /\ lock' = IF r.job # None THEN lock ELSE None
       /\ last' = IF r.job # None THEN last
                  ELSE Call("dequeue", None, None, None, FALSE, None, 0)
  /\ UNCHANGED <<file, now, ids, failures, delivered, fileVars, supVars,
                 loopVars>>

\* dequeue: save_to_file and return job; the lock is released
ThreadSave(t) ==
  /\ pc[t].at = "marked"
  /\ file' = saved(file, jobs[Main], TRUE)
  /\ pc' = [pc EXCEPT ![t].at = "run"]
  /\ lock' = None
  /\ last' = Call("dequeue", None, None, None, FALSE, pc[t].job, 0)
  /\ delivered' = delivered \cup {pc[t].job[1]}
  /\ UNCHANGED <<jobs, now, ids, failures, fileVars, supVars, loopVars>>

\* complete_job(job.id, result), the whole method under the lock
ThreadComplete(t) ==
  /\ pc[t].at = "run"
  /\ lock_free(lock, t)
  /\ \E result \in Results : CompleteJob(Main, pc[t].job[1], result)
  /\ pc' = [pc EXCEPT ![t] = [at |-> "poll", job |-> None,
                              got |-> Append(pc[t].got, pc[t].job[1])]]
  /\ UNCHANGED <<failures, delivered, lock, fileVars, supVars, loopVars>>

NextThreads ==
  \E t \in ThreadIds :
    \/ ThreadLoad(t)
    \/ ThreadMark(t)
    \/ ThreadSave(t)
    \/ ThreadComplete(t)

SpecThreads == InitThreads /\ [][NextThreads]_vars

\* The jobs thread t has been given by dequeue so far.
given(t) ==
  {pc[t].got[k] : k \in 1..Len(pc[t].got)}
    \cup (IF pc[t].at = "run" THEN {pc[t].job[1]} ELSE {})

\* C16: no job is given to two threads, nor twice to one; and when every
\* thread has completed its Quota jobs, every job is Completed, in memory
\* and in the file, each by the one thread that was given it.
C16_ThreadExclusion ==
  /\ \A t, u \in ThreadIds : t # u => given(t) \cap given(u) = {}
  /\ \A t \in ThreadIds :
       /\ Cardinality({pc[t].got[k] : k \in 1..Len(pc[t].got)})
            = Len(pc[t].got)
       /\ pc[t].at = "run" =>
            \A k \in 1..Len(pc[t].got) : pc[t].got[k] # pc[t].job[1]
  /\ (\A t \in ThreadIds : Len(pc[t].got) = Quota) =>
       /\ \A i \in 1..Len(jobs[Main]) :
            /\ jobs[Main][i].status = "COMPLETED"
            /\ \E t \in ThreadIds :
                 /\ jobs[Main][i].id \in given(t)
                 /\ jobs[Main][i].worker_id = Some(t)
       /\ Len(jobs[Main]) = MaxThreads * Quota
       /\ JobQueue(file).jobs = jobs[Main]

\* Every thread has completed its Quota of jobs and all are Completed.
C16_Witness ==
  /\ \A t \in ThreadIds : Len(pc[t].got) = Quota /\ pc[t].at = "poll"
  /\ \A i \in 1..Len(jobs[Main]) : jobs[Main][i].status = "COMPLETED"
  /\ Len(jobs[Main]) = 6
  /\ Cardinality(UNION {given(t) : t \in ThreadIds}) = 6

\* ------------------------------------- the orchestrator and its workers

\* The number of worker processes the configuration asks for.
PoolSize == 2
\* The number of worker processes that die on their own.
MaxDeaths == 1
\* The number of SIGINT/SIGTERM signals delivered to the orchestrator.
MaxSignals == 1

\* _start_workers: the worker ids and types, in the order they are started
WorkerKinds ==
  <<[worker_id |-> "task-worker-1", worker_type |-> "task_evaluation"],
    [worker_id |-> "evolution-worker-1", worker_type |-> "evolution"],
    [worker_id |-> "validation-worker-1", worker_type |-> "validation"]>>
Configured ==
  SubSeq(WorkerKinds, 1,
         IF PoolSize < Len(WorkerKinds) THEN PoolSize ELSE Len(WorkerKinds))

\* os.getpid() in the orchestrator
getpid == "orchestrator"

Event(op, arg) == [op |-> op, arg |-> arg]

\* A constructor that installs no signal handler
constructed_bare == <<>>
\* Orchestrator.__init__: what it has done when it returns
constructed == <<Event("signal_handlers", "SIGINT,SIGTERM")>>

\* A WorkerProcess whose start() returned True, with the pid of its process
WorkerProcess(c, pid) ==
  [worker_id |-> c.worker_id, worker_type |-> c.worker_type, pid |-> pid]

\* self.workers is a dict in insertion order: where worker_id is, 0 if absent
slot(ws, id) ==
  IF \E i \in 1..Len(ws) : ws[i].worker_id = id
    THEN CHOOSE i \in 1..Len(ws) : ws[i].worker_id = id
    ELSE 0
\* self.workers[worker_id] = w
put(ws, w) ==
  IF slot(ws, w.worker_id) = 0
    THEN Append(ws, w)
    ELSE [ws EXCEPT ![slot(ws, w.worker_id)] = w]
\* del self.workers[worker_id]
del(ws, id) ==
  LET other(w) == w.worker_id # id IN SelectSeq(ws, other)
\* the keys of self.workers
managed(ws) == {ws[i].worker_id : i \in 1..Len(ws)}

\* WorkerProcess.is_alive
is_alive(w) == w.pid \in procs.live

\* A call of stop(), by the signal handler or by the finally block of start
Frame(by) == [by |-> by, at |-> "flag", k |-> 0, len |-> 0]
top == main.frames[Len(main.frames)]
\* The main thread runs the body of start(), no stop() being in progress.
body(at) == main.frames = <<>> /\ main.at = at
\* The process of the orchestrator has not exited.
process_alive == main.at \notin {"done", "crashed"}

\* A job the previous orchestrator left Running when it crashed
Stale ==
  <<mark_running(create(1, "EVALUATE_TASK",
                        [epoch |-> "epoch-001", task |-> "task-001"],
                        DefaultMaxRetries, 1),
                 "worker-1", 1)>>

InitSup ==
  /\ file = document(Stale)
  /\ jobs = [q \in {Main} |-> JobQueue(document(Stale)).jobs]
  /\ now = 1
  /\ ids = Len(Stale)
  /\ last = Call("init", None, None, None, FALSE, None, 0)
  /\ failures = [id \in 1..MaxJobs |-> 0]
  /\ pc = <<>>
  /\ delivered = {}
  /\ sup = [running |-> FALSE, workers |-> <<>>, status_file |-> None,
            pid_file |-> None]
  /\ main = [at |-> "start", i |-> 1, frames |-> <<>>, raised |-> FALSE]
  /\ monitor = [at |-> "unstarted", k |-> 0, len |-> 0, dead |-> <<>>,
                new |-> None]
  /\ procs = [spawned |-> 0, live |-> {}, pooled |-> {}, deaths |-> 0,
              signals |-> 0]
  /\ events = constructed
  /\ FileIdle /\ LockIdle /\ LoopIdle

\* What the orchestrator leaves alone
aside == <<failures, pc, delivered, fileVars, lockVars, loopVars>>
queueVars == <<file, jobs, now, ids, last>>

\* start(): reset_running_jobs, then self.running = True
StartReset ==
  /\ body("start")
  /\ ResetRunningJobs(Main)
  /\ sup' = [sup EXCEPT !.running = TRUE]
  /\ main' = [main EXCEPT !.at = "spawn"]
  /\ events' = Append(events, Event("reset_running_jobs", ""))
  /\ UNCHANGED <<monitor, procs, aside>>

\* _start_workers: one configured worker; it enters the pool when its
\* start() returns True
StartWorkers ==
  /\ body("spawn")
  /\ main.i <= Len(Configured)
  /\ \E started \in BOOLEAN :
       LET c == Configured[main.i]
           pid == procs.spawned + 1
       IN /\ IF started
               THEN /\ sup' = [sup EXCEPT
                                 !.workers = put(@, WorkerProcess(c, pid))]
                    /\ procs' = [procs EXCEPT !.spawned = pid,
                                              !.live = @ \cup {pid},
                                              !.pooled = @ \cup {pid}]
               ELSE UNCHANGED <<sup, procs>>
          /\ events' = Append(events,
                              Event(IF started THEN "spawn"
                                               ELSE "spawn_failed",
                                    c.worker_id))
  /\ main' = [main EXCEPT !.i = @ + 1,
                          !.at = IF main.i + 1 > Len(Configured)
                                   THEN "status" ELSE "spawn"]
  /\ UNCHANGED <<monitor, queueVars, aside>>

\* _save_status: the status file is written, of start() and of the main loop
SaveStatus ==
  /\ main.frames = <<>>
  /\ main.at \in {"status", "loop_status"}
  /\ sup' = [sup EXCEPT
               !.status_file =
                  Some([running |-> sup.running, pid |-> getpid,
                        workers |-> [i \in 1..Len(sup.workers) |->
                                       sup.workers[i].worker_id]])]
  /\ main' = [main EXCEPT
                !.at = IF main.at = "status" THEN "pid" ELSE "loop_pid"]
  /\ UNCHANGED <<monitor, procs, events, queueVars, aside>>

\* _save_status: the pid file is written
SavePid ==
  /\ main.frames = <<>>
  /\ main.at \in {"pid", "loop_pid"}
  /\ sup' = [sup EXCEPT !.pid_file = Some(getpid)]
  /\ events' = IF main.at = "pid"
                 THEN Append(events, Event("save_status", getpid))
                 ELSE events
  /\ main' = [main EXCEPT
                !.at = IF main.at = "pid" THEN "monitor" ELSE "loop"]
  /\ UNCHANGED <<monitor, procs, queueVars, aside>>

\* start(): the monitor thread is started, and the try block entered
StartMonitor ==
  /\ body("monitor")
  /\ monitor' = [monitor EXCEPT !.at = "check"]
  /\ events' = Append(events, Event("monitor_thread", ""))
  /\ main' = [main EXCEPT !.at = "loop"]
  /\ UNCHANGED <<sup, procs, queueVars, aside>>

\* start(): while self.running
MainLoop ==
  /\ body("loop")
  /\ main' = [main EXCEPT !.at = IF sup.running THEN "sleep" ELSE "finally"]
  /\ UNCHANGED <<sup, monitor, procs, events, queueVars, aside>>

\* start(): after the sleep, if self.running: _save_status()
MainWake ==
  /\ body("sleep")
  /\ main' = [main EXCEPT
                !.at = IF sup.running THEN "loop_status" ELSE "loop"]
  /\ UNCHANGED <<sup, monitor, procs, events, queueVars, aside>>

\* start(): finally: self.stop()
Finally ==
  /\ body("finally")
  /\ main' = [main EXCEPT !.at = "stopping", !.frames = <<Frame("finally")>>]
  /\ UNCHANGED <<sup, monitor, procs, events, queueVars, aside>>

\* A signal arrives: the main thread runs _signal_handler, that calls stop()
SignalHandler ==
  /\ process_alive
  /\ procs.signals < MaxSignals
  /\ main' = [main EXCEPT !.frames = Append(@, Frame("signal"))]
  /\ procs' = [procs EXCEPT !.signals = @ + 1]
  /\ UNCHANGED <<sup, monitor, events, queueVars, aside>>

\* stop(): self.running = False, and _stop_workers begins to iterate
StopFlag ==
  /\ main.frames # <<>>
  /\ top.at = "flag"
  /\ sup' = [sup EXCEPT !.running = FALSE]
  /\ main' = [main EXCEPT
                !.frames[Len(main.frames)] =
                   [top EXCEPT !.at = "iter", !.k = 1,
                               !.len = Len(sup.workers)]]
  /\ UNCHANGED <<monitor, procs, events, queueVars, aside>>

\* _stop_workers: worker.stop() of the next worker of the pool
StopWorkers ==
  /\ main.frames # <<>>
  /\ top.at = "iter"
  /\ Len(sup.workers) = top.len
  /\ top.k <= top.len
  /\ procs' = [procs EXCEPT !.live = @ \ {sup.workers[top.k].pid}]
  /\ main' = [main EXCEPT !.frames[Len(main.frames)].k = @ + 1]
  /\ UNCHANGED <<sup, monitor, events, queueVars, aside>>

\* _stop_workers: the iteration is over, self.workers.clear()
StopClear ==
  /\ main.frames # <<>>
  /\ top.at = "iter"
  /\ Len(sup.workers) = top.len
  /\ top.k > top.len
  /\ sup' = [sup EXCEPT !.workers = <<>>]
  /\ main' = [main EXCEPT !.frames[Len(main.frames)].at = "cleanup"]
  /\ UNCHANGED <<monitor, procs, events, queueVars, aside>>

\* Where the main thread is after an exception left the signal handler:
\* _save_status catches it, the try block of start() runs its finally
\* block, and anywhere else it leaves start().
landing(at) ==
  IF at \in {"status", "pid"} THEN "monitor"
  ELSE IF at \in {"loop_status", "loop_pid"} THEN "loop"
  ELSE IF at \in {"loop", "sleep"} THEN "finally"
  ELSE "crashed"

\* _stop_workers: the dict changed size during the iteration, and the
\* RuntimeError leaves stop() and every call under it that does not catch it
StopRaise ==
  /\ main.frames # <<>>
  /\ top.at = "iter"
  /\ Len(sup.workers) # top.len
  /\ main' = [main EXCEPT
                !.frames = <<>>,
                !.at = landing(main.at),
                !.raised = landing(main.at) = "finally"]
  /\ UNCHANGED <<sup, monitor, procs, events, queueVars, aside>>

\* _cleanup_status_files
CleanupStatusFiles ==
  /\ main.frames # <<>>
  /\ top.at = "cleanup"
  /\ sup' = [sup EXCEPT !.status_file = None, !.pid_file = None]
  /\ main' = [main EXCEPT !.frames[Len(main.frames)].at = "return"]
  /\ UNCHANGED <<monitor, procs, events, queueVars, aside>>

\* stop() returns, to the code the signal interrupted or to start(), that
\* returns or lets the exception it held go.
StopReturn ==
  /\ main.frames # <<>>
  /\ top.at = "return"
  /\ main' = [main EXCEPT
                !.frames = SubSeq(@, 1, Len(@) - 1),
                !.at = IF top.by = "finally"
                         THEN (IF main.raised THEN "crashed" ELSE "done")
                         ELSE @]
  /\ UNCHANGED <<sup, monitor, procs, events, queueVars, aside>>

\* A worker process dies
WorkerDies ==
  /\ procs.deaths < MaxDeaths
  /\ \E pid \in procs.live :
       procs' = [procs EXCEPT !.live = @ \ {pid}, !.deaths = @ + 1]
  /\ UNCHANGED <<sup, main, monitor, events, queueVars, aside>>

\* _monitor_loop: while self.running
MonitorCheck ==
  /\ process_alive
  /\ monitor.at = "check"
  /\ monitor' = IF sup.running
                  THEN [monitor EXCEPT !.at = "scan", !.k = 1,
                                       !.len = Len(sup.workers),
                                       !.dead = <<>>, !.new = None]
                  ELSE [monitor EXCEPT !.at = "exited"]
  /\ UNCHANGED <<sup, main, procs, events, queueVars, aside>>

\* _monitor_loop: is_alive() of the next worker of the pool; a dict that
\* changed size raises, and the handler of the loop sleeps and goes on
MonitorScan ==
  /\ process_alive
  /\ monitor.at = "scan"
  /\ monitor' =
       IF Len(sup.workers) # monitor.len
         THEN [monitor EXCEPT !.at = "check"]
       ELSE IF monitor.k <= monitor.len
         THEN [monitor EXCEPT
                 !.k = @ + 1,
                 !.dead = IF is_alive(sup.workers[monitor.k])
                            THEN @
                            ELSE Append(@, sup.workers[monitor.k].worker_id)]
       ELSE [monitor EXCEPT
               !.at = IF monitor.dead = <<>> THEN "clean" ELSE "restart"]
  /\ UNCHANGED <<sup, main, procs, events, queueVars, aside>>

\* _monitor_loop: old_worker = self.workers[worker_id], a KeyError when
\* it is gone; then new_worker.start()
MonitorRestart ==
  /\ process_alive
  /\ monitor.at = "restart"
  /\ LET id == Head(monitor.dead)
         at == slot(sup.workers, id)
         pid == procs.spawned + 1
     IN IF at = 0
          THEN /\ monitor' = [monitor EXCEPT !.at = "check"]
               /\ UNCHANGED procs
          ELSE \E started \in BOOLEAN :
                 IF started
                   THEN /\ procs' = [procs EXCEPT !.spawned = pid,
                                                  !.live = @ \cup {pid}]
                        /\ monitor' =
                             [monitor EXCEPT
                                !.at = "started",
                                !.new = Some(WorkerProcess(sup.workers[at],
                                                           pid))]
                   ELSE /\ monitor' = [monitor EXCEPT !.at = "started",
                                                      !.new = None]
                        /\ UNCHANGED procs
  /\ UNCHANGED <<sup, main, events, queueVars, aside>>

\* _monitor_loop: self.workers[worker_id] = new_worker when it started,
\* del self.workers[worker_id] when it did not (a KeyError when it is gone)
MonitorReplace ==
  /\ process_alive
  /\ monitor.at = "started"
  /\ LET id == Head(monitor.dead)
         rest == Tail(monitor.dead)
         on == [monitor EXCEPT
                  !.dead = rest, !.new = None,
                  !.at = IF rest = <<>> THEN "clean" ELSE "restart"]
     IN IF monitor.new # None
          THEN /\ sup' = [sup EXCEPT !.workers = put(@, monitor.new[1])]
               /\ procs' = [procs EXCEPT
                              !.pooled = @ \cup {monitor.new[1].pid}]
               /\ monitor' = on
          ELSE IF slot(sup.workers, id) = 0
            THEN /\ monitor' = [monitor EXCEPT !.at = "check", !.new = None]
                 /\ UNCHANGED <<sup, procs>>
            ELSE /\ sup' = [sup EXCEPT !.workers = del(@, id)]
                 /\ monitor' = on
                 /\ UNCHANGED procs
  /\ UNCHANGED <<main, events, queueVars, aside>>

\* _monitor_loop: clear_completed_jobs(timedelta(hours=1)), then the sleep.
\* The ticks of the clock are more than an hour apart: what completed
\* before this tick completed more than an hour ago.
MonitorClean ==
  /\ process_alive
  /\ monitor.at = "clean"
  /\ \E r \in {clear_completed_jobs(jobs[Main], now)} :
       /\ jobs' = [jobs EXCEPT ![Main] = r.jobs]
       /\ file' = saved(file, r.jobs, r.save)
       /\ last' = Call("clear_completed_jobs", None, None, None, FALSE,
                       None, r.count)
  /\ monitor' = [monitor EXCEPT !.at = "check"]
  /\ UNCHANGED <<now, ids, sup, main, procs, events, aside>>

NextSup ==
  \/ StartReset
  \/ StartWorkers
  \/ SaveStatus
  \/ SavePid
  \/ StartMonitor
  \/ MainLoop
  \/ MainWake
  \/ Finally
  \/ SignalHandler
  \/ StopFlag
  \/ StopWorkers
  \/ StopClear
  \/ StopRaise
  \/ CleanupStatusFiles
  \/ StopReturn
  \/ WorkerDies
  \/ MonitorCheck
  \/ MonitorScan
  \/ MonitorRestart
  \/ MonitorReplace
  \/ MonitorClean

SpecSup == InitSup /\ [][NextSup]_vars

\* The events with one of the operations ops, in the order they happened
done(ops) == LET hit(e) == e.op \in ops IN SelectSeq(events, hit)
\* Where an operation stands in an order of sets of operations
rank(order, op) == CHOOSE i \in 1..Len(order) : op \in order[i]
\* What has happened happened in the given order.
in_order(order) ==
  \A i, j \in 1..Len(events) :
     i < j => rank(order, events[i].op) <= rank(order, events[j].op)

C18_WorkerRestart ==
  [][(sup.running /\ sup'.running) =>
       \A i \in 1..Len(sup.workers) :
          \E j \in 1..Len(sup'.workers) :
             /\ sup'.workers[j].worker_id = sup.workers[i].worker_id
             /\ sup'.workers[j].worker_type = sup.workers[i].worker_type]_vars

\* C19: when a call of stop() returns, self.running is false, the pool is
\* empty, no process that was in the pool is alive, and neither the status
\* file nor the pid file exists; for the call of the signal handler and for
\* the call of the finally block of start() that follows it.
C19_SupervisorStop ==
  [][(/\ main.frames # <<>>
      /\ top.at = "return"
      /\ Len(main'.frames) = Len(main.frames) - 1) =>
       /\ ~sup'.running
       /\ managed(sup'.workers) = {}
       /\ procs'.live \cap procs'.pooled = {}
       /\ sup'.status_file = None
       /\ sup'.pid_file = None]_vars

\* ------------------------------------------- the poll loop of a worker

\* The ceiling of consecutive_errors: the loop is left when it is exceeded.
MaxConsecutiveErrors == 10

\* The worker scripts
Scripts ==
  {"task-worker", "task-worker-debug", "task-worker-fixed",
   "validation-worker"}
\* The scripts that count their errors
Counting == {"task-worker-debug", "task-worker-fixed"}
\* The job type a script executes
handles(script) ==
  IF script = "validation-worker" THEN "COMPILE_CHECK" ELSE "EVALUATE_TASK"
\* The job_types a script gives to dequeue
asks(script) ==
  IF script \in {"task-worker", "task-worker-fixed"}
    THEN None
    ELSE Some({handles(script)})

\* The worker_id of the worker
Worker == "worker-1"

\* The jobs in the queue when the worker starts, one of each kind
queued ==
  <<create(1, "COMPILE_CHECK", [epoch |-> "epoch-001", task |-> "task-002"],
           MaxRetries, 1),
    create(2, "EVALUATE_TASK", [epoch |-> "epoch-001", task |-> "task-001"],
           MaxRetries, 1)>>

InitLoop ==
  /\ file = document(queued)
  /\ jobs = [q \in {Worker} |-> JobQueue(document(queued)).jobs]
  /\ now = 1
  /\ ids = Len(queued)
  /\ last = Call("init", None, None, None, FALSE, None, 0)
  /\ failures = [id \in 1..MaxJobs |-> 0]
  /\ pc = <<>>
  /\ delivered = {}
  /\ \E script \in Scripts :
       loop = [script |-> script, running |-> TRUE, at |-> "poll",
               job |-> None, consecutive_errors |-> 0, streak |-> 0,
               outcome |-> "started", left |-> "no"]
  /\ FileIdle /\ LockIdle /\ SupIdle

\* What the loop leaves alone
apart == <<failures, pc, delivered, fileVars, lockVars, supVars>>

\* An iteration of the loop that raised nothing is over; reset tells
\* whether it sets consecutive_errors = 0.  streak is history: the number
\* of exceptions since the last iteration that raised nothing.
passed(outcome, reset) ==
  [loop EXCEPT !.at = "poll", !.job = None, !.outcome = outcome,
               !.streak = 0,
               !.consecutive_errors = IF reset THEN 0 ELSE @]

\* run(): dequeue; with no job the worker sleeps and resets its counter
LoopPoll ==
  /\ loop.at = "poll"
  /\ loop.running
  /\ Dequeue(Worker, Worker, asks(loop.script))
  /\ loop' = IF last'.job = None
               THEN passed("idle", TRUE)
               ELSE [loop EXCEPT !.at = "job", !.job = last'.job]
  /\ UNCHANGED apart

\* run(): a job of another type is failed, and the loop continues
LoopWrongType ==
  /\ loop.at = "job"
  /\ get_job(jobs[Worker], loop.job[1])[1].job_type # handles(loop.script)
  /\ FailJob(Worker, loop.job[1], "boom", TRUE)
  /\ loop' = passed("wrong_type", FALSE)
  /\ UNCHANGED apart

\* run(): the job is executed; complete_job when the result is a success,
\* fail_job when it is not; then the counter is reset
LoopExecute ==
  /\ loop.at = "job"
  /\ get_job(jobs[Worker], loop.job[1])[1].job_type = handles(loop.script)
  /\ \/ /\ \E result \in Results : CompleteJob(Worker, loop.job[1], result)
        /\ loop' = passed("completed", TRUE)
     \/ /\ \E error \in Errors : FailJob(Worker, loop.job[1], error, TRUE)
        /\ loop' = passed("failed", TRUE)
  /\ UNCHANGED apart

\* run(): except Exception, for an exception raised while polling the
\* queue or processing the job.  The scripts that count leave the loop
\* when the counter exceeds the ceiling; the others sleep and go on.
LoopRaise ==
  /\ loop.at = "job" \/ (loop.at = "poll" /\ loop.running)
  /\ LET counted == IF loop.script \in Counting
                      THEN loop.consecutive_errors + 1
                      ELSE loop.consecutive_errors
         run == IF loop.streak > MaxConsecutiveErrors
                  THEN loop.streak ELSE loop.streak + 1
         out == loop.script \in Counting /\ counted > MaxConsecutiveErrors
     IN loop' = [loop EXCEPT !.consecutive_errors = counted,
                             !.streak = run,
                             !.job = None,
                             !.outcome = "exception",
                             !.at = IF out THEN "exited" ELSE "poll",
                             !.left = IF out THEN "errors" ELSE @]
  /\ UNCHANGED <<queueVars, apart>>

\* signal_handler: self.running = False
LoopSignal ==
  /\ loop.at # "exited"
  /\ loop.running
  /\ loop' = [loop EXCEPT !.running = FALSE]
  /\ UNCHANGED <<queueVars, apart>>

\* run(): while self.running is over
LoopLeave ==
  /\ loop.at = "poll"
  /\ ~loop.running
  /\ loop' = [loop EXCEPT !.at = "exited", !.left = "stopped"]
  /\ UNCHANGED <<queueVars, apart>>

NextLoop ==
  \/ LoopPoll
  \/ LoopWrongType
  \/ LoopExecute
  \/ LoopRaise
  \/ LoopSignal
  \/ LoopLeave

SpecLoop == InitLoop /\ [][NextLoop]_vars

\* C20: an exception in the poll loop is caught and the worker goes on;
\* the worker leaves its loop because of errors only after more than
\* MaxConsecutiveErrors consecutive exceptions; and its counter is 0 after
\* every idle poll and after every job handled without an exception.
C20_WorkerFailure ==
  /\ loop.left = "errors" => loop.streak > MaxConsecutiveErrors
  /\ (loop.outcome = "exception" /\ loop.streak <= MaxConsecutiveErrors) =>
       loop.at # "exited" \/ loop.left = "stopped"
  /\ loop.outcome \in {"idle", "wrong_type", "completed", "failed"} =>
       loop.consecutive_errors = 0

\* C21: a worker that dequeued a job of a type it does not handle fails it
\* with allow_retry = false: the job is Failed when the call returns, and
\* not Pending again.
C21_RoutingError ==
  [][(loop.at = "job" /\ loop'.at = "poll" /\ loop'.outcome = "wrong_type")
       => /\ ~last'.allow
          /\ get_job(jobs'[Worker], loop.job[1])[1].status = "FAILED"]_vars

\* ------------------------------------------ the maintenance operations

\* The number of jobs in the queue the maintenance operations are given.
MaxQueued == 5

\* The retention windows given to clear_completed_jobs, in ticks
Windows == 0..MaxTime

\* The jobs the queue operations leave behind, by status, completion
\* time and retry budget left; their ids are given by their place.
Shapes ==
  LET fresh(max_retries) ==
        create(0, "EVALUATE_TASK",
               [epoch |-> "epoch-001", task |-> "task-001"], max_retries, 0)
      run(max_retries) == mark_running(fresh(max_retries), "worker-1", 0)
      result == JobResult(TRUE, "done", "", 1, "{}")
  IN {fresh(1), run(1)}
       \cup {mark_completed(run(1), result, t) : t \in Times}
       \cup {mark_failed(run(1), "boom", FALSE, t) : t \in Times}
       \cup {mark_failed(run(0), "boom", TRUE, t) : t \in Times}

\* The ids of a list of jobs, by place
placed(f) == [i \in 1..Len(f) |-> [f[i] EXCEPT !.id = i]]

Queues ==
  {placed(f) : f \in UNION {[1..n -> Shapes] : n \in 0..MaxQueued}}

InitSweep ==
  /\ \E js \in Queues :
       /\ file = document(js)
       /\ jobs = [q \in {Main} |-> JobQueue(document(js)).jobs]
       /\ ids = Len(js)
  /\ now = MaxTime
  /\ last = Call("init", None, None, None, FALSE, None, 0)
  /\ failures = [id \in 1..MaxJobs |-> 0]
  /\ pc = <<>>
  /\ delivered = {}
  /\ BesideInit

\* q calls clear_completed_jobs(older_than); the record of the call keeps
\* older_than where the other calls keep an id.
ClearCompletedJobs(q, older_than) ==
  \E t \in Later :
    \E r \in {clear_completed_jobs(jobs[q], t - older_than)} :
       /\ jobs' = [jobs EXCEPT ![q] = r.jobs]
       /\ file' = saved(file, r.jobs, r.save)
       /\ now' = t
       /\ last' = Call("clear_completed_jobs", Some(older_than), None, None,
                       FALSE, None, r.count)
       /\ UNCHANGED ids

SweepClear ==
  /\ \E older_than \in Windows : ClearCompletedJobs(Main, older_than)
  /\ UNCHANGED <<failures, pc, delivered, beside>>

SweepRetry ==
  /\ RetryFailedJobs(Main)
  /\ UNCHANGED <<failures, pc, delivered, beside>>

NextSweep ==
  \/ SweepClear
  \/ SweepRetry

SpecSweep == InitSweep /\ [][NextSweep]_vars

\* C22: clear_completed_jobs(older_than) removes exactly the Completed and
\* Failed jobs whose completed_at is earlier than now - older_than, returns
\* their number, leaves every other job in place and unchanged, and saves
\* the map when it removed a job.
C22_ClearCompleted ==
  [][last'.op = "clear_completed_jobs" =>
       LET js == jobs[Main]
           cutoff == now' - last'.id[1]
           gone(job) ==
             /\ job.status \in {"COMPLETED", "FAILED"}
             /\ job.completed_at # None
             /\ job.completed_at[1] < cutoff
           stays(job) == ~gone(job)
       IN /\ jobs'[Main] = SelectSeq(js, stays)
          /\ last'.count = Cardinality({i \in 1..Len(js) : gone(js[i])})
          /\ \A i \in 1..Len(js) :
               js[i].status \in {"PENDING", "RUNNING"} =>
                 \E k \in 1..Len(jobs'[Main]) : jobs'[Main][k] = js[i]
          /\ file' = IF last'.count > 0 THEN document(jobs'[Main]) ELSE file
    ]_vars

\* With a zero retention window, three Completed jobs were removed and two
\* Pending jobs are what is left.
C22_Witness ==
  /\ last.op = "clear_completed_jobs"
  /\ last.id = Some(0)
  /\ last.count = 3
  /\ Len(jobs[Main]) = 2
  /\ \A i \in 1..Len(jobs[Main]) : jobs[Main][i].status = "PENDING"
  /\ ids = 5
  /\ JobQueue(file).jobs = jobs[Main]

\* C23: retry_failed_jobs sets to Pending, with started_at and worker_id
\* cleared, exactly the Failed jobs with retry_count < max_retries, returns
\* their number, and leaves every other job unchanged.
C23_RetryFailedOnly ==
  [][last'.op = "retry_failed_jobs" =>
       LET js == jobs[Main]
           hit == {i \in 1..Len(js) :
                     /\ js[i].status = "FAILED"
                     /\ js[i].retry_count < js[i].max_retries}
       IN /\ Len(jobs'[Main]) = Len(js)
          /\ last'.count = Cardinality(hit)
          /\ \A i \in 1..Len(js) :
               jobs'[Main][i] =
                 IF i \in hit
                   THEN [js[i] EXCEPT !.status = "PENDING",
                                      !.started_at = None,
                                      !.worker_id = None]
                   ELSE js[i]
    ]_vars

claimed_one(before, after, call, f) ==
  /\ Len(after) = Len(before)
  /\ \E i \in 1..Len(before) :
       /\ before[i].id = call.job[1]
       /\ before[i].status = "PENDING"
       /\ after[i].started_at # None
       /\ after[i] = [before[i] EXCEPT !.status = "RUNNING",
                                       !.worker_id = call.worker,
                                       !.started_at = after[i].started_at]
       /\ \A k \in 1..Len(before) : k # i => after[k] = before[k]
  /\ f = document(after)

\* C25 as stated: a dequeue that returns a job claims exactly that job of
\* the reloaded map for the caller and persists it; a dequeue that returns
\* none changes no job and does not write the file.
C25_DequeueFrame ==
  [][last'.op = "dequeue" =>
       LET before == load_from_file(file, jobs[Main]).jobs
       IN IF last'.job # None
            THEN claimed_one(before, jobs'[Main], last', file')
            ELSE jobs'[Main] = before /\ file' = file]_vars

\* C25, amended: a dequeue that returns a job claims exactly that job of
\* the reloaded map for the caller and persists it; a dequeue that returns
\* none changes no job of the reloaded map, and writes the file only when
\* its reload found a text that is no JSON: then, after 5 attempts, the
\* map is empty and the empty map is written.
C25_DequeueClaimsOne ==
  [][last'.op = "dequeue" =>
       LET before == load_from_file(file, jobs[Main]).jobs
       IN IF last'.job # None
            THEN claimed_one(before, jobs'[Main], last', file')
            ELSE /\ jobs'[Main] = before
                 /\ IF file.kind = "garbage"
                      THEN /\ last'.count = LoadAttempts
                           /\ before = <<>>
                           /\ file' = document(<<>>)
                      ELSE file' = file]_vars

\* worker-2 was given the first of two Pending jobs; the second is still
\* Pending and the file holds both.
C25_Witness ==
  /\ last.op = "dequeue" /\ last.job # None
  /\ last.worker = Some("worker-2")
  /\ Len(jobs[Main]) >= 2
  /\ \E i \in 1..Len(jobs[Main]) :
       /\ jobs[Main][i].id = last.job[1]
       /\ jobs[Main][i].status = "RUNNING"
       /\ jobs[Main][i].worker_id = Some("worker-2")
       /\ \E k \in (i + 1)..Len(jobs[Main]) :
            jobs[Main][k].status = "PENDING"
  /\ file = document(jobs[Main])

\* ------------------------------------------ C26, on Spec

\* The ids of a job map in the order of the map; ids are given in the
\* order of the enqueues.
order(js) == [k \in 1..Len(js) |-> js[k].id]

\* C26: dequeue returns the first Pending job the filter admits in the
\* insertion order of the job map, which its reload keeps; no operation but
\* enqueue changes that order, and enqueue adds at the end, so a job that a
\* retry or a reset made Pending again is claimed before every admitted job
\* enqueued after it.
C26_ClaimOrder ==
  [][/\ (last'.op = "dequeue" /\ last'.job # None) =>
          LET before == load_from_file(file, jobs[Main]).jobs
              i == index_of(before, last'.job[1])
          IN /\ order(before) = order(jobs[Main])
             /\ claimable(before[i], last'.types)
             /\ \A k \in 1..Len(before) :
                  (k # i /\ claimable(before[k], last'.types)) =>
                     /\ k > i
                     /\ before[k].id > before[i].id
     /\ IF last'.op = "enqueue"
          THEN order(jobs'[Main]) = Append(order(jobs[Main]), last'.job[1])
          ELSE order(jobs'[Main]) = order(jobs[Main])
     /\ \A i, k \in 1..Len(jobs'[Main]) :
          i < k => jobs'[Main][i].id < jobs'[Main][k].id
    ]_vars

\* Job 1 failed once and was made Pending again while job 2, enqueued after
\* it, was Pending; a dequeue whose filter admits both has returned job 1.
C26_Witness ==
  /\ last.op = "dequeue" /\ last.job = Some(1)
  /\ Len(jobs[Main]) = 2
  /\ jobs[Main][1].id = 1 /\ jobs[Main][1].status = "RUNNING"
  /\ jobs[Main][1].retry_count = 1
  /\ jobs[Main][2].status = "PENDING"
  /\ admits(last.types, jobs[Main][1]) /\ admits(last.types, jobs[Main][2])

\* ------------------------------------------ C27, on Spec

\* C27: fail_job with allow_retry false on a known job ends with the job
\* Failed, completed_at set, result.error the error given and retry_count
\* as it was, whatever budget is left; fail_job with allow_retry true on a
\* job with retry_count < max_retries ends with the job Pending and
\* completed_at unset.
C27_FailJob ==
  [][(last'.op = "fail_job" /\ index_of(jobs[Main], last'.id[1]) # 0) =>
       LET i == index_of(jobs[Main], last'.id[1])
           old == jobs[Main][i]
           new == jobs'[Main][i]
       IN /\ ~last'.allow =>
               /\ new.status = "FAILED"
               /\ new.completed_at # None
               /\ new.result # None /\ new.result[1].error \in Errors
               /\ new.retry_count = old.retry_count
          /\ (last'.allow /\ old.retry_count < old.max_retries) =>
               /\ new.status = "PENDING"
               /\ new.completed_at = None]_vars

\* ------------------------- one process, the whole API, the clock moving
\* The queue is made at tick 0 and used by one worker; the enqueues, claims
\* and reports happen at different ticks.

InitClock ==
  /\ file = NoFile
  /\ jobs = [q \in {Main} |-> JobQueue(NoFile).jobs]
  /\ now = 0
  /\ ids = 0
  /\ last = Call("init", None, None, None, FALSE, None, 0)
  /\ failures = [id \in 1..MaxJobs |-> 0]
  /\ pc = <<>>
  /\ delivered = {}
  /\ BesideInit

NextClock ==
  \/ /\ \E request \in Requests, max_retries \in 0..MaxRetries :
          /\ request.job_type = "EVALUATE_TASK"
          /\ Enqueue(Main, request.job_type, request.parameters, max_retries)
     /\ UNCHANGED <<failures, pc, delivered, beside>>
  \/ /\ Dequeue(Main, "worker-1", None)
     /\ UNCHANGED <<failures, pc, delivered, beside>>
  \/ ApiCompleteJob
  \/ ApiFailJob
  \/ ApiRetryFailedJobs
  \/ ApiResetRunningJobs

SpecClock == InitClock /\ [][NextClock]_vars

\* ------------------------------------------ C28, on SpecClock

\* The fields of a job that enqueue gives and nothing is to change.
FixedFields == {"id", "job_type", "parameters", "created_at", "max_retries"}
fixed(job) == [f \in FixedFields |-> job[f]]

\* C28: a job's id, job_type, parameters, created_at and max_retries are
\* those enqueue gave it (created_at the time of the enqueue): no dequeue,
\* complete_job, fail_job, reset_running_jobs or retry_failed_jobs changes
\* them, and the jobs loaded from the saved file have them unchanged.
C28_FixedAtEnqueue ==
  /\ [](\/ file.kind = "missing" /\ jobs[Main] = <<>>
        \/ LET loaded == load_from_file(file, <<>>).jobs
           IN /\ Len(loaded) = Len(jobs[Main])
              /\ \A i \in 1..Len(loaded) :
                   fixed(loaded[i]) = fixed(jobs[Main][i]))
  /\ [][/\ Len(jobs'[Main]) >= Len(jobs[Main])
        /\ \A i \in 1..Len(jobs[Main]) :
             fixed(jobs'[Main][i]) = fixed(jobs[Main][i])
        /\ last'.op = "enqueue" =>
             /\ Len(jobs'[Main]) = Len(jobs[Main]) + 1
             /\ \E request \in Requests, max_retries \in 0..MaxRetries :
                  fixed(jobs'[Main][Len(jobs'[Main])]) =
                    [id |-> ids', job_type |-> request.job_type,
                     parameters |-> request.parameters,
                     created_at |-> Some(now'),
                     max_retries |-> max_retries]
        /\ last'.op # "enqueue" => Len(jobs'[Main]) = Len(jobs[Main])
       ]_vars

\* A job enqueued at tick 0 with one retry failed once, was claimed again
\* and completed at a later tick, and was reloaded by a dequeue since: it
\* still has its id, type, created_at and max_retries.
C28_Witness ==
  /\ last.op = "dequeue"
  /\ Len(jobs[Main]) >= 1
  /\ LET job == jobs[Main][1]
     IN /\ job.id = 1 /\ job.job_type = "EVALUATE_TASK"
        /\ job.created_at = Some(0) /\ job.max_retries = 1
        /\ job.parameters = [epoch |-> "epoch-001", task |-> "task-001"]
        /\ job.status = "COMPLETED" /\ job.retry_count = 1
        /\ job.completed_at # None /\ job.completed_at[1] > 0

\* ------------------------------------------ C29, on SpecMP

\* What get_job and get_queue_stats give process q now.
snapshot(q) ==
  [get_job |-> [id \in 1..MaxJobs |-> get_job(jobs[q], id)],
   get_queue_stats |-> get_queue_stats(jobs[q])]

\* The jobs whose enqueue has returned and that the map of q does not hold.
unseen(q) == {id \in 1..ids : get_job(jobs[q], id) = None}

\* The step is the reload that begins a dequeue of worker w.
reloads(w) == pc[w].at = "poll" /\ pc'[w].at = "loaded"

\* C29: a worker process sees the producer's enqueue only through a
\* reload: the enqueue leaves what the worker's get_job and get_queue_stats
\* return as it was, a job enters the worker's map only in the reload of
\* its dequeue, and that reload, the first after the enqueue, gives the
\* worker the new job as Pending.
C29_Visibility ==
  [][\A w \in Workers :
       /\ ids' = ids + 1 => snapshot(w)' = snapshot(w)
       /\ unseen(w) \ unseen(w)' # {} => reloads(w)
       /\ reloads(w) =>
            \A id \in unseen(w) :
              /\ get_job(jobs'[w], id) # None
              /\ get_job(jobs'[w], id)[1].status = "PENDING"
    ]_vars

\* ------------------- the status file read by another orchestrator object
\* A command line run (--status, --stop) makes its own Orchestrator and
\* reads the status file an earlier orchestrator process wrote, if any.
\* That process is running, gone, or gone with its pid given to another
\* process, of this user or of another one.

\* The status file found: absent, no JSON, JSON that is no object, an
\* object without pid, or the object _save_status wrote.
StatusFiles ==
  {[kind |-> k, pid |-> None] :
     k \in {"missing", "garbage", "nonobject", "object"}}
    \cup {[kind |-> "object", pid |-> Some(getpid)]}

\* What holds the pid in the file: the orchestrator that wrote it
\* (running, or terminating after SIGTERM), nothing (gone), or another
\* process of this user (reused) or of another user (foreign).
ProcessStates == {"running", "terminating", "gone", "reused", "foreign"}

\* os.kill that finds every pid alive
os_kill_blind(state) == ""

\* os.kill(pid, sig): the exception raised, "" when the signal is sent
os_kill(state) ==
  CASE state = "gone" -> "ProcessLookupError"
    [] state = "foreign" -> "PermissionError"
    [] OTHER -> ""

\* Orchestrator._cleanup_status_files
cleanup_status_files(s) ==
  [s EXCEPT !.status_file = [kind |-> "missing", pid |-> None],
            !.pid_file = None]

\* Orchestrator._load_status: what it returns, whether it removed the
\* files, and the exception its outer handler caught ("" when none).
\* PermissionError and ProcessLookupError are OSErrors.
load_status(f, state) ==
  CASE f.kind = "missing" ->
         [returns |-> None, cleanup |-> FALSE, caught |-> ""]
    [] f.kind = "garbage" ->
         [returns |-> None, cleanup |-> FALSE, caught |-> "JSONDecodeError"]
    [] f.kind = "nonobject" ->
         [returns |-> None, cleanup |-> FALSE, caught |-> "TypeError"]
    [] f.pid = None ->
         [returns |-> None, cleanup |-> FALSE, caught |-> ""]
    [] OTHER ->
         IF os_kill(state) = ""
           THEN [returns |-> Some(f), cleanup |-> FALSE, caught |-> ""]
           ELSE [returns |-> None, cleanup |-> TRUE, caught |-> ""]

Cli == [at |-> "cli", returned |-> None, cleaned |-> FALSE, caught |-> ""]

InitStatus ==
  /\ file = NoFile
  /\ jobs = [q \in {Main} |-> JobQueue(NoFile).jobs]
  /\ now = 1
  /\ ids = 0
  /\ last = Call("init", None, None, None, FALSE, None, 0)
  /\ failures = [id \in 1..MaxJobs |-> 0]
  /\ pc = <<>>
  /\ delivered = {}
  /\ \E f \in StatusFiles, p \in {None, Some(getpid)} :
       sup = [running |-> FALSE, workers |-> <<>>, status_file |-> f,
              pid_file |-> p]
  /\ main = Cli
  /\ monitor = <<>>
  /\ \E state \in ProcessStates \ {"terminating"} :
       procs = [state |-> state, writing |-> FALSE]
  /\ events = <<>>
  /\ FileIdle /\ LockIdle /\ LoopIdle

apart_status ==
  <<file, jobs, now, ids, last, failures, pc, delivered, monitor, events,
    fileVars, lockVars, loopVars>>

\* persisted_status = orchestrator._load_status()
LoadStatus ==
  /\ main.at = "cli"
  /\ \E r \in {load_status(sup.status_file, procs.state)} :
       /\ sup' = IF r.cleanup THEN cleanup_status_files(sup) ELSE sup
       /\ main' = [at |-> "loaded", returned |-> r.returns,
                   cleaned |-> r.cleanup, caught |-> r.caught]
  /\ UNCHANGED <<procs, apart_status>>

\* The running orchestrator's _save_status: open(self.status_file, 'w')
\* empties the file
SaveStatusOpen ==
  /\ procs.state = "running" /\ ~procs.writing
  /\ procs' = [procs EXCEPT !.writing = TRUE]
  /\ sup' = [sup EXCEPT !.status_file = [kind |-> "garbage", pid |-> None]]
  /\ UNCHANGED <<main, apart_status>>

\* _save_status: json.dump(status, f), and the pid file
SaveStatusDump ==
  /\ procs.state = "running" /\ procs.writing
  /\ procs' = [procs EXCEPT !.writing = FALSE]
  /\ sup' = [sup EXCEPT
               !.status_file = [kind |-> "object", pid |-> Some(getpid)],
               !.pid_file = Some(getpid)]
  /\ UNCHANGED <<main, apart_status>>

\* The orchestrator process dies without running stop(): its files stay.
ProcessExit ==
  /\ procs.state = "running"
  /\ procs' = [procs EXCEPT !.state = "gone", !.writing = FALSE]
  /\ UNCHANGED <<sup, main, apart_status>>

\* The system gives the pid of the dead orchestrator to a new process.
PidReuse ==
  /\ procs.state = "gone"
  /\ \E state \in {"reused", "foreign"} :
       procs' = [procs EXCEPT !.state = state]
  /\ UNCHANGED <<sup, main, apart_status>>

\* main(), --stop: os.kill(pid, signal.SIGTERM); when it raises an OSError
\* the files are removed
StopTerm ==
  /\ main.at = "loaded"
  /\ main.returned # None /\ main.returned[1].pid # None
  /\ IF os_kill(procs.state) = ""
       THEN /\ main' = [main EXCEPT !.at = "sleep"]
            /\ procs' = [procs EXCEPT
                           !.state = IF @ = "running" THEN "terminating"
                                                      ELSE @]
            /\ sup' = sup
       ELSE /\ main' = [main EXCEPT !.at = "exit"]
            /\ sup' = cleanup_status_files(sup)
            /\ procs' = procs
  /\ UNCHANGED apart_status

\* The signalled orchestrator runs stop(), removes its files and exits.
OrchestratorStops ==
  /\ procs.state = "terminating"
  /\ procs' = [procs EXCEPT !.state = "gone", !.writing = FALSE]
  /\ sup' = cleanup_status_files(sup)
  /\ UNCHANGED <<main, apart_status>>

\* main(), --stop, after the sleep: os.kill(pid, 0), SIGKILL when that
\* finds the process, and _cleanup_status_files
StopKill ==
  /\ main.at = "sleep"
  /\ procs' = IF os_kill(procs.state) = ""
                THEN [state |-> "gone", writing |-> FALSE]
                ELSE procs
  /\ sup' = cleanup_status_files(sup)
  /\ main' = [main EXCEPT !.at = "exit"]
  /\ UNCHANGED apart_status

\* The next command line run
CliAgain ==
  /\ main.at \in {"loaded", "exit"}
  /\ main' = Cli
  /\ UNCHANGED <<sup, procs, apart_status>>

NextStatus ==
  \/ LoadStatus
  \/ SaveStatusOpen
  \/ SaveStatusDump
  \/ ProcessExit
  \/ PidReuse
  \/ StopTerm
  \/ OrchestratorStops
  \/ StopKill
  \/ CliAgain

SpecStatus == InitStatus /\ [][NextStatus]_vars

\* ------------------------------------------ C30, on SpecStatus

\* C30: _load_status returns the status in the file only when the file
\* exists and the pid in it belongs to a live process, and then leaves the
\* files alone; when the process with that pid is gone it removes the
\* status file and the pid file and returns None; when the file is missing
\* or cannot be read as a JSON object it returns None, no exception
\* leaving the call, and the files stay as they are.
C30_StaleStatus ==
  [][(main.at = "cli" /\ main'.at = "loaded") =>
       LET f == sup.status_file
       IN /\ main'.returned # None =>
               /\ f.kind = "object" /\ f.pid # None
               /\ procs.state \in {"running", "terminating", "reused"}
               /\ main'.returned = Some(f)
               /\ sup' = sup
          /\ (f.kind = "object" /\ f.pid # None /\ procs.state = "gone") =>
               /\ main'.returned = None
               /\ sup'.status_file.kind = "missing"
               /\ sup'.pid_file = None
          /\ f.kind \in {"missing", "garbage", "nonobject"} =>
               /\ main'.returned = None
               /\ sup' = sup
          /\ main'.caught \in {"", "JSONDecodeError", "TypeError"}
    ]_vars

\* _load_status found the files of an orchestrator that is gone, removed
\* both and returned None.
C30_Witness ==
  /\ main.at = "loaded" /\ main.cleaned
  /\ main.returned = None
  /\ procs.state = "gone"
  /\ sup.status_file.kind = "missing" /\ sup.pid_file = None

\* ---------------------------------- one WorkerProcess handle and its process
\* The orchestrator makes a handle, starts it (or fails to), asks is_alive
\* and calls stop, more than once: the signal handler and the finally block
\* of start() both stop the pool.  The process runs until it exits by
\* itself or is signalled; SIGTERM makes the worker leave its loop after
\* the job it runs, which may take longer than the timeout of stop.

\* How many times stop is called on the handle
MaxStops == 2

\* The process of the handle: not spawned, running, told to stop (SIGTERM
\* received), or exited, and then the return code Popen has for it.
NoProcess == [state |-> "none", returncode |-> None]

\* Popen.wait that returns whether or not the process has exited
has_exited_any(state) == TRUE

\* Popen.poll() is not None: the process has exited
has_exited(state) == state = "exited"

\* Popen.terminate / Popen.kill: nothing is sent to a process that has
\* exited; SIGTERM is handled by the worker, SIGKILL ends it.
signalled(state, sig) ==
  CASE state = "exited" -> state
    [] sig = "SIGKILL" -> "exited"
    [] OTHER -> "stopping"

\* WorkerProcess.is_alive
handle_is_alive(handle, state) == handle.process # None /\ ~has_exited(state)

\* The caller: where it is, the call that returned last and what it
\* returned, the number of stop calls, and what is_alive said last.
Caller ==
  [at |-> "idle", op |-> "__init__", stops |-> 0, returned |-> None,
   alive |-> None]

InitHandle ==
  /\ file = NoFile
  /\ jobs = [q \in {Main} |-> JobQueue(NoFile).jobs]
  /\ now = 1
  /\ ids = 0
  /\ last = Call("init", None, None, None, FALSE, None, 0)
  /\ failures = [id \in 1..MaxJobs |-> 0]
  /\ pc = <<>>
  /\ delivered = {}
  /\ sup = [process |-> None, started |-> FALSE]
  /\ main = Caller
  /\ monitor = <<>>
  /\ procs = NoProcess
  /\ events = <<>>
  /\ FileIdle /\ LockIdle /\ LoopIdle

apart_handle ==
  <<file, jobs, now, ids, last, failures, pc, delivered, monitor,
    fileVars, lockVars, loopVars>>

\* start(): Popen gives a process, or raises and start returns False
HandleStart ==
  /\ main.at = "idle" /\ ~sup.started
  /\ \/ /\ sup' = [process |-> Some("pid-1"), started |-> TRUE]
        /\ procs' = [state |-> "running", returncode |-> None]
        /\ main' = [main EXCEPT !.op = "start", !.returned = Some(TRUE)]
     \/ /\ sup' = [process |-> None, started |-> TRUE]
        /\ procs' = procs
        /\ main' = [main EXCEPT !.op = "start", !.returned = Some(FALSE)]
  /\ UNCHANGED <<events, apart_handle>>

\* The worker process ends: its loop was left, or it crashed
HandleProcessExits ==
  /\ procs.state \in {"running", "stopping"}
  /\ procs' = [state |-> "exited",
               returncode |-> Some(IF procs.state = "running" THEN 1 ELSE 0)]
  /\ UNCHANGED <<sup, main, events, apart_handle>>

\* is_alive()
HandleIsAlive ==
  /\ main.at = "idle"
  /\ main' = [main EXCEPT !.op = "is_alive",
                          !.alive = Some(handle_is_alive(sup, procs.state))]
  /\ UNCHANGED <<sup, procs, events, apart_handle>>

\* stop(): if not self.process: return True; else self.process.terminate()
HandleStop ==
  /\ main.at = "idle" /\ main.stops < MaxStops
  /\ IF sup.process = None
       THEN /\ main' = [main EXCEPT !.op = "stop", !.stops = @ + 1,
                                    !.returned = Some(TRUE)]
            /\ UNCHANGED <<procs, events>>
       ELSE /\ main' = [main EXCEPT !.at = "wait", !.stops = @ + 1,
                                    !.returned = None]
            /\ events' = Append(events, Event("terminate", main.stops + 1))
            /\ procs' = [procs EXCEPT
                           !.state = signalled(procs.state, "SIGTERM")]
  /\ UNCHANGED <<sup, apart_handle>>

\* self.process.wait(timeout=timeout) returns: return True
HandleWaited ==
  /\ main.at = "wait"
  /\ has_exited(procs.state)
  /\ main' = [main EXCEPT !.at = "idle", !.op = "stop",
                          !.returned = Some(TRUE)]
  /\ UNCHANGED <<sup, procs, events, apart_handle>>

\* wait raises TimeoutExpired: self.process.kill()
HandleTimeout ==
  /\ main.at = "wait"
  /\ ~has_exited(procs.state)
  /\ events' = Append(events, Event("kill", main.stops))
  /\ procs' = [state |-> signalled(procs.state, "SIGKILL"),
               returncode |-> Some(-9)]
  /\ main' = [main EXCEPT !.at = "wait_killed"]
  /\ UNCHANGED <<sup, apart_handle>>

\* self.process.wait() after the kill: return True
HandleWaitKilled ==
  /\ main.at = "wait_killed"
  /\ has_exited(procs.state)
  /\ main' = [main EXCEPT !.at = "idle", !.op = "stop",
                          !.returned = Some(TRUE)]
  /\ UNCHANGED <<sup, procs, events, apart_handle>>

NextHandle ==
  \/ HandleStart
  \/ HandleProcessExits
  \/ HandleIsAlive
  \/ HandleStop
  \/ HandleWaited
  \/ HandleTimeout
  \/ HandleWaitKilled

SpecHandle == InitHandle /\ [][NextHandle]_vars

\* ------------------------------------------ C31, on SpecHandle

\* The call of stop that ends in this step.
stop_returns ==
  main.at \in {"wait", "wait_killed"} /\ main'.at = "idle"

\* C31: is_alive() is false before start() and after the process has
\* exited; stop() on a handle never started returns True and sends
\* nothing; stop on a started handle sends terminate first and kills only
\* after a wait that found the process still there, and when it returns
\* True the process is not alive.
C31_HandleLifecycle ==
  [][/\ (main' # main /\ main'.op = "is_alive"
           /\ main'.stops = main.stops) =>
          /\ (~sup.started \/ sup.process = None) => main'.alive = Some(FALSE)
          /\ procs.state = "exited" => main'.alive = Some(FALSE)
     /\ (main'.stops = main.stops + 1 /\ sup.process = None) =>
          /\ main'.returned = Some(TRUE) /\ main'.at = "idle"
          /\ events' = events /\ procs' = procs /\ sup' = sup
     /\ (main'.stops = main.stops + 1 /\ sup.process # None) =>
          events' = Append(events, Event("terminate", main'.stops))
     /\ events' # events /\ events'[Len(events')].op = "kill" =>
          /\ events # <<>>
          /\ events[Len(events)] = Event("terminate", main.stops)
          /\ main.at = "wait" /\ procs.state # "exited"
     /\ (stop_returns /\ main'.returned = Some(TRUE)) =>
          procs'.state = "exited"
    ]_vars

\* A stop whose wait timed out killed the process and returned True; the
\* process has exited and is_alive says so.
C31_Witness ==
  /\ main.at = "idle" /\ main.op = "is_alive"
  /\ main.alive = Some(FALSE) /\ main.returned = Some(TRUE)
  /\ sup.process # None
  /\ procs.state = "exited"
  /\ events = <<Event("terminate", 1), Event("kill", 1)>>

\* ------------------------------------------ C32, on SpecMP

\* The jobs the call that ended in this step was about: the job enqueued
\* or returned by dequeue, or the job named to complete_job or fail_job.
concerned ==
  (IF last'.id # None THEN {last'.id[1]} ELSE {})
    \cup (IF last'.job # None THEN {last'.job[1]} ELSE {})

\* C32: the save of an enqueue, a complete_job or a fail_job that does not
\* concern job j leaves j in the file, in the state in which the file held
\* it, whichever process wrote it there.
C32_NoLostWrites ==
  [][(file' # file /\ last'.op \in {"enqueue", "complete_job", "fail_job"}) =>
       \A i \in 1..Len(file.jobs) :
         file.jobs[i].key \notin concerned =>
           \E k \in 1..Len(file'.jobs) : file'.jobs[k] = file.jobs[i]]_vars

\* --------------- the orchestrator's cleanup beside a producer and a worker
\* The orchestrator loads the queue file once, in its constructor, and its
\* monitor loop calls clear_completed_jobs on that JobQueue for as long as
\* it runs.  A producer and a worker, each with its own JobQueue, use the
\* file meanwhile.  A tick of the clock is longer than the retention of
\* the monitor loop: what was completed at an earlier tick has expired.

Supervisor == "supervisor"

InitClean ==
  /\ \E n \in 0..1 : \E f \in [1..n -> Shapes] :
       /\ file = document(placed(f))
       /\ jobs = [q \in {Supervisor, Producer, "worker-1"} |->
                    JobQueue(document(placed(f))).jobs]
       /\ ids = n
  /\ now = 0
  /\ last = Call("init", None, None, None, FALSE, None, 0)
  /\ failures = [id \in 1..MaxJobs |-> 0]
  /\ pc = <<>>
  /\ delivered = {}
  /\ BesideInit

\* The producer enqueues a job.
CleanEnqueue ==
  /\ \E request \in Requests :
       Enqueue(Producer, request.job_type, request.parameters, MaxRetries)
  /\ UNCHANGED <<failures, pc, delivered, beside>>

\* The worker polls.
CleanDequeue ==
  /\ Dequeue("worker-1", "worker-1", None)
  /\ UNCHANGED <<failures, pc, delivered, beside>>

\* The worker reports a job it runs.
CleanComplete ==
  /\ \E i \in 1..Len(jobs["worker-1"]), result \in Results :
       /\ jobs["worker-1"][i].status = "RUNNING"
       /\ jobs["worker-1"][i].worker_id = Some("worker-1")
       /\ CompleteJob("worker-1", jobs["worker-1"][i].id, result)
  /\ UNCHANGED <<failures, pc, delivered, beside>>

\* _monitor_loop: self.job_queue.clear_completed_jobs(timedelta(hours=1))
CleanMonitor ==
  /\ \E t \in Later :
       \E r \in {clear_completed_jobs(jobs[Supervisor], t)} :
          /\ jobs' = [jobs EXCEPT ![Supervisor] = r.jobs]
          /\ file' = saved(file, r.jobs, r.save)
          /\ now' = t
          /\ last' = Call("clear_completed_jobs", None, None, None, FALSE,
                          None, r.count)
  /\ UNCHANGED <<ids, failures, pc, delivered, beside>>

NextClean ==
  \/ CleanEnqueue
  \/ CleanDequeue
  \/ CleanComplete
  \/ CleanMonitor

SpecClean == InitClean /\ [][NextClean]_vars

\* ------------------------------------------ C33, on SpecClean

\* The record of the file is a Completed or Failed job that was completed
\* before the cutoff.
expired(e, cutoff_time) ==
  LET job == from_dict(e)
  IN /\ job.status \in {"COMPLETED", "FAILED"}
     /\ job.completed_at # None
     /\ job.completed_at[1] < cutoff_time

\* C33: the cleanup of the monitor loop takes from the file only Completed
\* and Failed jobs older than the retention; every other job the file
\* holds, whoever persisted it, is in the file afterwards as it was.
C33_CleanupConfined ==
  [][last'.op = "clear_completed_jobs" =>
       \A i \in 1..Len(file.jobs) :
         ~expired(file.jobs[i], now') =>
           \E k \in 1..Len(file'.jobs) : file'.jobs[k] = file.jobs[i]]_vars

\* ------------------- a worker that dies with a job, under a running orchestrator
\* The orchestrator has started (reset_running_jobs is behind it) and its
\* monitor loop runs: it restarts a worker found dead and calls
\* clear_completed_jobs.  A producer enqueues; the worker process polls,
\* runs and reports, and may die at any point.  A restarted worker is a
\* new process with a new JobQueue over the file.

Alive == [at |-> "poll", job |-> None]

InitRecover ==
  /\ file = NoFile
  /\ jobs = [q \in {Supervisor, Producer, "worker-1"} |->
               JobQueue(NoFile).jobs]
  /\ now = 1
  /\ ids = 0
  /\ last = Call("init", None, None, None, FALSE, None, 0)
  /\ failures = [id \in 1..MaxJobs |-> 0]
  /\ pc = [w \in {"worker-1"} |-> Alive]
  /\ delivered = {}
  /\ sup = <<>> /\ main = <<>> /\ monitor = <<>> /\ events = <<>>
  /\ procs = [live |-> TRUE, deaths |-> 0, orphans |-> {}]
  /\ FileIdle /\ LockIdle /\ LoopIdle

apart_recover ==
  <<failures, delivered, sup, main, monitor, events, fileVars, lockVars,
    loopVars>>

\* The producer enqueues a job.
RecoverEnqueue ==
  /\ \E request \in Requests :
       Enqueue(Producer, request.job_type, request.parameters, MaxRetries)
  /\ UNCHANGED <<pc, procs, apart_recover>>

\* The worker's loop: dequeue(self.worker_id)
RecoverPoll ==
  /\ procs.live /\ pc["worker-1"].at = "poll"
  /\ Dequeue("worker-1", "worker-1", None)
  /\ pc' = [pc EXCEPT !["worker-1"] =
               IF last'.job # None THEN [at |-> "run", job |-> last'.job]
                                   ELSE Alive]
  /\ UNCHANGED <<procs, apart_recover>>

\* The worker's loop: the job ran; complete_job, or fail_job for a job of
\* a type the worker does not handle
RecoverReport ==
  /\ procs.live /\ pc["worker-1"].at = "run"
  /\ IF get_job(jobs["worker-1"], pc["worker-1"].job[1])[1].job_type
         = "EVALUATE_TASK"
       THEN \E result \in Results :
              CompleteJob("worker-1", pc["worker-1"].job[1], result)
       ELSE FailJob("worker-1", pc["worker-1"].job[1], "boom", TRUE)
  /\ pc' = [pc EXCEPT !["worker-1"] = Alive]
  /\ UNCHANGED <<procs, apart_recover>>

\* The worker process dies; the job it ran stays as the file has it.
RecoverDies ==
  /\ procs.live /\ procs.deaths < MaxDeaths
  /\ procs' = [live |-> FALSE, deaths |-> procs.deaths + 1,
               orphans |-> IF pc["worker-1"].at = "run"
                             THEN procs.orphans \cup {pc["worker-1"].job[1]}
                             ELSE procs.orphans]
  /\ UNCHANGED <<file, jobs, now, ids, last, pc, apart_recover>>

\* One pass of _monitor_loop: a dead worker is replaced by a new process,
\* which makes its JobQueue, and clear_completed_jobs is called
RecoverMonitor ==
  /\ \E t \in Later :
       \E r \in {clear_completed_jobs(jobs[Supervisor], t)} :
          /\ jobs' = [jobs EXCEPT
                        ![Supervisor] = r.jobs,
                        !["worker-1"] = IF procs.live THEN @
                                        ELSE JobQueue(file).jobs]
          /\ file' = saved(file, r.jobs, r.save)
          /\ now' = t
          /\ last' = Call("clear_completed_jobs", None, None, None, FALSE,
                          None, r.count)
  /\ procs' = [procs EXCEPT !.live = TRUE]
  /\ pc' = IF procs.live THEN pc ELSE [pc EXCEPT !["worker-1"] = Alive]
  /\ UNCHANGED <<ids, apart_recover>>

NextRecover ==
  \/ RecoverEnqueue
  \/ RecoverPoll
  \/ RecoverReport
  \/ RecoverDies
  \/ RecoverMonitor

\* The monitor thread and a live worker keep running.
SpecRecover ==
  /\ InitRecover
  /\ [][NextRecover]_vars
  /\ WF_vars(RecoverPoll)
  /\ WF_vars(RecoverReport)
  /\ WF_vars(RecoverMonitor)

\* ------------------------------------------ C34, on SpecRecover

\* The status the file has for job id, "" when it has no such job
persisted_status(id) ==
  IF \E i \in 1..Len(file.jobs) : file.jobs[i].key = id
    THEN file.jobs[CHOOSE i \in 1..Len(file.jobs) :
                     file.jobs[i].key = id].val.status
    ELSE ""

\* C34: a job whose worker died while running it eventually leaves
\* Running, the orchestrator running on and nobody calling
\* reset_running_jobs by hand.
C34_DeadWorkerRecovery ==
  \A id \in 1..MaxJobs :
    (id \in procs.orphans) ~> (persisted_status(id) # "running")

\* --------------------------------------------- no orphan after stop()
\* C35: when a call of stop() returns, no worker process this supervisor
\* spawned is alive, whether _start_workers or the restart pass of the
\* monitor thread spawned it, for every interleaving of the two threads.
C35_NoOrphanAfterStop ==
  [][(/\ main.frames # <<>>
      /\ top.at = "return"
      /\ Len(main'.frames) = Len(main.frames) - 1) =>
       procs'.live = {}]_vars

\* ------------------------------- supervisors that follow one another
\* How many supervisor processes are started, one after the other
MaxSupervisors == 2

\* No supervisor process
NoSupervisor == [alive |-> FALSE, running |-> FALSE, workers |-> <<>>,
                 started |-> 0]

\* The worker processes of the machine: the pids that are alive and, by pid,
\* the WORKER_ID each process was started with
InitKill ==
  /\ file = document(Stale)
  /\ jobs = [q \in {Main} |-> <<>>]
  /\ now = 1
  /\ ids = Len(Stale)
  /\ last = Call("init", None, None, None, FALSE, None, 0)
  /\ failures = [id \in 1..MaxJobs |-> 0]
  /\ pc = <<>>
  /\ delivered = {}
  /\ sup = NoSupervisor
  /\ main = [at |-> "none", i |-> 1]
  /\ monitor = <<>>
  /\ procs = [live |-> {}, worker_id |-> <<>>, deaths |-> 0]
  /\ events = <<>>
  /\ FileIdle /\ LockIdle /\ LoopIdle

apart_kill == <<failures, pc, delivered, monitor, fileVars, lockVars,
                loopVars>>

\* main() with --start: Orchestrator(config), whose JobQueue loads the file
KillConstruct ==
  /\ ~sup.alive
  /\ sup.started < MaxSupervisors
  /\ sup' = [alive |-> TRUE, running |-> FALSE, workers |-> <<>>,
             started |-> sup.started + 1]
  /\ jobs' = [jobs EXCEPT ![Main] = JobQueue(file).jobs]
  /\ main' = [at |-> "start", i |-> 1]
  /\ events' = constructed
  /\ UNCHANGED <<file, now, ids, last, procs, apart_kill>>

\* start(): reset_running_jobs, then self.running = True
KillReset ==
  /\ sup.alive
  /\ main.at = "start"
  /\ ResetRunningJobs(Main)
  /\ sup' = [sup EXCEPT !.running = TRUE]
  /\ main' = [main EXCEPT !.at = "spawn"]
  /\ events' = Append(events, Event("reset_running_jobs", ""))
  /\ UNCHANGED <<procs, apart_kill>>

\* _start_workers: one configured worker, started in a session of its own
KillSpawn ==
  /\ sup.alive
  /\ main.at = "spawn"
  /\ main.i <= Len(Configured)
  /\ \E started \in BOOLEAN :
       LET c == Configured[main.i]
           pid == Len(procs.worker_id) + 1
       IN /\ IF started
               THEN /\ sup' = [sup EXCEPT
                                 !.workers = put(@, WorkerProcess(c, pid))]
                    /\ procs' = [procs EXCEPT
                                   !.live = @ \cup {pid},
                                   !.worker_id = Append(@, c.worker_id)]
               ELSE UNCHANGED <<sup, procs>>
          /\ events' = Append(events,
                              Event(IF started THEN "spawn"
                                               ELSE "spawn_failed",
                                    c.worker_id))
  /\ main' = [main EXCEPT !.i = @ + 1,
                          !.at = IF main.i + 1 > Len(Configured)
                                   THEN "loop" ELSE "spawn"]
  /\ UNCHANGED <<queueVars, apart_kill>>

\* SIGTERM or SIGINT reaches the supervisor: stop() sets running = False
KillSignal ==
  /\ sup.alive
  /\ main.at \in {"spawn", "loop"}
  /\ sup' = [sup EXCEPT !.running = FALSE]
  /\ main' = [at |-> "stopping", i |-> 1]
  /\ UNCHANGED <<procs, events, queueVars, apart_kill>>

\* _stop_workers: worker.stop() of the next worker of the pool
KillStopWorkers ==
  /\ sup.alive
  /\ main.at = "stopping"
  /\ main.i <= Len(sup.workers)
  /\ procs' = [procs EXCEPT !.live = @ \ {sup.workers[main.i].pid}]
  /\ main' = [main EXCEPT !.i = @ + 1]
  /\ UNCHANGED <<sup, events, queueVars, apart_kill>>

\* _stop_workers is over: self.workers.clear(), stop() returns and the
\* supervisor process exits
KillStopped ==
  /\ sup.alive
  /\ main.at = "stopping"
  /\ main.i > Len(sup.workers)
  /\ sup' = [sup EXCEPT !.alive = FALSE, !.workers = <<>>]
  /\ main' = [at |-> "none", i |-> 1]
  /\ UNCHANGED <<procs, events, queueVars, apart_kill>>

\* SIGKILL reaches the supervisor, from main() with --stop two seconds after
\* its SIGTERM or from anyone else: the process is gone at once, and its
\* workers, each in a session of its own, stay
KillSupervisor ==
  /\ sup.alive
  /\ sup' = [sup EXCEPT !.alive = FALSE, !.running = FALSE,
                        !.workers = <<>>]
  /\ main' = [at |-> "none", i |-> 1]
  /\ UNCHANGED <<procs, events, queueVars, apart_kill>>

\* A worker process exits by itself
KillWorkerExits ==
  /\ procs.deaths < MaxDeaths
  /\ \E pid \in procs.live :
       procs' = [procs EXCEPT !.live = @ \ {pid}, !.deaths = @ + 1]
  /\ UNCHANGED <<sup, main, events, queueVars, apart_kill>>

NextKill ==
  \/ KillConstruct
  \/ KillReset
  \/ KillSpawn
  \/ KillSignal
  \/ KillStopWorkers
  \/ KillStopped
  \/ KillSupervisor
  \/ KillWorkerExits

SpecKill == InitKill /\ [][NextKill]_vars

\* The live worker processes that were started with this WORKER_ID
holders(worker_id) ==
  {pid \in procs.live : procs.worker_id[pid] = worker_id}

\* C36: at any time at most one live worker process exists per worker_id,
\* also after the supervisor process was killed without running stop() and a
\* new supervisor reset the Running jobs and spawned its pool.
C36_UniqueWorkerIdentity ==
  \A i \in 1..Len(Configured) :
     Cardinality(holders(Configured[i].worker_id)) <= 1

\* ------------------------------------------ completed_at and the status
\* C37: in every state the queue operations reach, a job has completed_at
\* set only if its status is Completed or Failed, and every Completed or
\* Failed job has completed_at set.
C37_CompletedAtTerminal ==
  \A i \in 1..Len(jobs[Main]) :
     (jobs[Main][i].completed_at # None)
       <=> (jobs[Main][i].status \in {"COMPLETED", "FAILED"})

\* --------------------------------- how often one job is handed out
\* One process; every job a dequeue returned is ended by complete_job or by
\* fail_job, and nothing else is called.  delivered counts, by job id, the
\* dequeues that returned the job.
InitBound ==
  /\ file = NoFile
  /\ jobs = [q \in {Main} |-> JobQueue(NoFile).jobs]
  /\ now = 1
  /\ ids = 0
  /\ last = Call("init", None, None, None, FALSE, None, 0)
  /\ failures = [id \in 1..MaxJobs |-> 0]
  /\ pc = <<>>
  /\ delivered = [id \in 1..MaxJobs |-> 0]
  /\ BesideInit

BoundEnqueue ==
  /\ \E request \in Requests, max_retries \in 0..RetryBudget :
       Enqueue(Main, request.job_type, request.parameters, max_retries)
  /\ UNCHANGED <<failures, pc, delivered, beside>>

BoundDequeue ==
  /\ Dequeue(Main, "worker-1", None)
  /\ delivered' = IF last'.job # None
                    THEN [delivered EXCEPT ![last'.job[1]] = @ + 1]
                    ELSE delivered
  /\ UNCHANGED <<failures, pc, beside>>

\* complete_job(job.id, result) on a job a dequeue returned
BoundCompleteJob ==
  \E i \in 1..Len(jobs[Main]), result \in Results :
    /\ jobs[Main][i].status = "RUNNING"
    /\ CompleteJob(Main, jobs[Main][i].id, result)
    /\ UNCHANGED <<failures, pc, delivered, beside>>

\* fail_job(job.id, error, allow_retry) on a job a dequeue returned
BoundFailJob ==
  \E i \in 1..Len(jobs[Main]), error \in Errors, allow_retry \in BOOLEAN :
    /\ jobs[Main][i].status = "RUNNING"
    /\ FailJob(Main, jobs[Main][i].id, error, allow_retry)
    /\ failures' = [failures EXCEPT ![jobs[Main][i].id] = @ + 1]
    /\ UNCHANGED <<pc, delivered, beside>>

NextBound ==
  \/ BoundEnqueue
  \/ BoundDequeue
  \/ BoundCompleteJob
  \/ BoundFailJob

SpecBound == InitBound /\ [][NextBound]_vars

\* C38: in one process where every claimed job is ended by complete_job or
\* fail_job and neither reset_running_jobs nor retry_failed_jobs is called,
\* dequeue returns a job enqueued with max_retries = N at most N + 1 times,
\* and never again once the job is Completed or Failed.
C38_BoundedExecutions ==
  /\ [](\A i \in 1..Len(jobs[Main]) :
          delivered[jobs[Main][i].id] <= jobs[Main][i].max_retries + 1)
  /\ [][\A i \in 1..Len(jobs[Main]) :
          jobs[Main][i].status \in {"COMPLETED", "FAILED"} =>
            /\ delivered'[jobs[Main][i].id] = delivered[jobs[Main][i].id]
            /\ jobs'[Main][i].status = jobs[Main][i].status]_vars

\* A job with max_retries = 2 was handed out three times and is Failed, and
\* a dequeue that found it so returned nothing
C38_Witness ==
  /\ last.op = "dequeue" /\ last.job = None
  /\ \E i \in 1..Len(jobs[Main]) :
       /\ jobs[Main][i].max_retries = 2
       /\ delivered[jobs[Main][i].id] = 3
       /\ jobs[Main][i].status = "FAILED"
       /\ jobs[Main][i].retry_count = 2

\* ------------------------------------------- the worker loop terminates
\* One process: a producer that enqueues and a worker loop that polls, runs
\* the job it got and reports it with complete_job or with
\* fail_job(allow_retry=True).  pc is where the loop is, with the job it
\* holds and whether the run succeeded.
AtPoll == [at |-> "poll", job |-> None, success |-> FALSE]

InitTerm ==
  /\ file = NoFile
  /\ jobs = [q \in {Main} |-> JobQueue(NoFile).jobs]
  /\ now = 1
  /\ ids = 0
  /\ last = Call("init", None, None, None, FALSE, None, 0)
  /\ failures = [id \in 1..MaxJobs |-> 0]
  /\ pc = AtPoll
  /\ delivered = {}
  /\ BesideInit

TermEnqueue ==
  /\ \E request \in Requests, max_retries \in 0..RetryBudget :
       Enqueue(Main, request.job_type, request.parameters, max_retries)
  /\ UNCHANGED <<failures, pc, delivered, beside>>

\* job = self.job_queue.dequeue(self.worker_id); None sends the loop back
\* to its top after the sleep
TermPoll ==
  /\ pc.at = "poll"
  /\ Dequeue(Main, "worker-1", None)
  /\ pc' = IF last'.job # None
             THEN [at |-> "execute", job |-> last'.job, success |-> FALSE]
             ELSE AtPoll
  /\ UNCHANGED <<failures, delivered, beside>>

\* the type test and _execute_task: the job is one to complete or to fail
TermExecute ==
  /\ pc.at = "execute"
  /\ \E success \in BOOLEAN :
       pc' = [pc EXCEPT !.at = "report", !.success = success]
  /\ UNCHANGED <<file, jobs, now, ids, last, failures, delivered, beside>>

\* complete_job(job.id, result) or fail_job(job.id, error)
TermReport ==
  /\ pc.at = "report"
  /\ IF pc.success
       THEN /\ \E result \in Results : CompleteJob(Main, pc.job[1], result)
            /\ UNCHANGED failures
       ELSE /\ \E error \in Errors : FailJob(Main, pc.job[1], error, TRUE)
            /\ failures' = [failures EXCEPT ![pc.job[1]] = @ + 1]
  /\ pc' = AtPoll
  /\ UNCHANGED <<delivered, beside>>

NextTerm ==
  \/ TermEnqueue
  \/ TermPoll
  \/ TermExecute
  \/ TermReport

\* The worker loop keeps running; the producer may stop at any time
SpecTerm ==
  /\ InitTerm /\ [][NextTerm]_vars
  /\ WF_vars(TermPoll) /\ WF_vars(TermExecute) /\ WF_vars(TermReport)

ended(id) ==
  \E i \in 1..Len(jobs[Main]) :
     /\ jobs[Main][i].id = id
     /\ jobs[Main][i].status \in {"COMPLETED", "FAILED"}

\* C39: with a worker loop that ends every job it claims with complete_job
\* or fail_job(allow_retry=True) and with no administrative operation, every
\* enqueued job is eventually Completed or Failed, its status never changes
\* after that, and from some point on every dequeue returns none.
C39_Termination ==
  /\ \A id \in 1..MaxJobs : (ids >= id) ~> ended(id)
  /\ [][\A i \in 1..Len(jobs[Main]) :
          jobs[Main][i].status \in {"COMPLETED", "FAILED"} =>
            jobs'[Main][i].status = jobs[Main][i].status]_vars
  /\ <>[][pc.at = "poll" => pc'.at = "poll"]_vars

\* Every job the bounds allow was enqueued and has ended, one of them Failed
\* after its retries ran out, and the last dequeue returned none
C39_Witness ==
  /\ ids = MaxJobs
  /\ \A id \in 1..MaxJobs : ended(id)
  /\ \E i \in 1..Len(jobs[Main]) :
       /\ jobs[Main][i].status = "FAILED"
       /\ jobs[Main][i].max_retries >= 1
       /\ jobs[Main][i].retry_count = jobs[Main][i].max_retries
  /\ last.op = "dequeue" /\ last.job = None
  /\ pc = AtPoll

\* ------------------------------------------------------ the empty filter
\* C40: dequeue(worker_id, []) does exactly what dequeue(worker_id) with no
\* filter does on the same map: it claims the first Pending job, whatever
\* its type, and returns none only when no job is Pending.
C40_EmptyFilter ==
  [][(last'.op = "dequeue" /\ last'.types = Some({})) =>
       LET before == load_from_file(file, jobs[Main]).jobs
       IN /\ \E worker_id \in WorkerIds :
               \E r \in {dequeue(before, worker_id, None, now')} :
                  /\ jobs'[Main] = r.jobs
                  /\ last'.job = r.job
          /\ \A i \in 1..Len(before) :
               (/\ before[i].status = "PENDING"
                /\ \A k \in 1..(i - 1) : before[k].status # "PENDING")
                 => /\ last'.job = Some(before[i].id)
                    /\ jobs'[Main][i].status = "RUNNING"
    ]_vars

\* dequeue(worker_id, []) returned the first job, a CompileCheck job, and
\* left the EvaluateTask job behind it Pending
C40_Witness ==
  /\ last.op = "dequeue" /\ last.types = Some({})
  /\ last.job = Some(1)
  /\ Len(jobs[Main]) = 2
  /\ jobs[Main][1].job_type = "COMPILE_CHECK"
  /\ jobs[Main][1].status = "RUNNING"
  /\ jobs[Main][2].job_type = "EVALUATE_TASK"
  /\ jobs[Main][2].status = "PENDING"

====
